---- MODULE Spec2Model ----
(***************************************************************************)
(* Verification model of the Open3D tensor registration kernels:           *)
(*   - the parallel reductions of ComputeTransformCPU.cpp                   *)
(*     (point-to-plane, colored ICP, and the two passes of                  *)
(*     Get3x3SxyLinearSystem),                                              *)
(*   - the depth projection ProjectCPU with its critical section,           *)
(*   - the sign correction of ComputeRtPointToPointCPU.                     *)
(* Floating point values are modelled by integers (exact arithmetic).       *)
(* Arrays keep the 0-based offsets of the source.                           *)
(***************************************************************************)
EXTENDS Integers, Sequences, FiniteSets, TLC

\* ------------------------------------------------------------------ bounds

\* Largest number of source points of one reduction call.
MaxN == 2
\* Number of parallel workers (threads / TBB bodies) of one reduction.
NumWorkers == 2

VARIABLES
    \* ---- reductions (ComputeTransformCPU.cpp)
    kind,            \* which kernel runs
    kern,            \* robust kernel selected by the caller (op)
    n,               \* source_points.GetLength()
    correspondence_indices,
    next,            \* next workload_idx the scheduler hands out
    pc,              \* per worker: "idle" | "loaded" | "joined"
    cur,             \* per worker: workload_idx in flight
    tmp,             \* per worker: accumulator value read by A[k] += ...
    acc,             \* per slot: partial accumulator
    hits,            \* per workload_idx: how many times its body completed
    holder,          \* per workload_idx: the worker whose partial holds its
                     \* contribution, -1 before the body completed (history)
    result,          \* A_1x29 / sxy_1x9: what the last reduction returned
    mean_1x7,        \* sums and count of the first point-to-point pass
    pass,            \* 1 | 2: pass of Get3x3SxyLinearSystem (else 1)
    global_sum,      \* output tensor of the 29-entry kernels
    phase,           \* "reduce" | "copy" | "divide" | "output" | "done"
    Sxy,             \* output tensor {3,3} of Get3x3SxyLinearSystem
    mean_s,          \* output tensor: the caller's mean_s
    mean_t,          \* output tensor: the caller's mean_t
    inlier_count,    \* output: int &inlier_count
    \* ---- ProjectCPU (SVD3x3CUDA.cuh)
    points,          \* per point: image coordinate u, camera depth zc, color
    has_colors,      \* image_colors.has_value()
    depth_scale,
    depth,           \* the depth image, per pixel
    depth_before,    \* the depth image as the caller passed it (history)
    writers,         \* per pixel: the points that wrote its depth (history)
    image_colors,    \* the color image, per pixel
    ppc,             \* per point worker: position in the kernel
    critical,        \* owner of the unnamed omp critical section, or Nobody
    \* ---- ComputeRtPointToPointCPU (ComputeTransformCPU.cpp)
    U,               \* left factor of Sxy.SVD()
    VT,              \* right factor (transposed) of Sxy.SVD()
    S,               \* the sign matrix
    R,               \* the rotation
    t,               \* the translation
    rtpc,            \* position: "svd" | "sign" | "rotate" | "translate" |
                     \* "done"
    \* ---- EstimatePointWiseColorGradientCPU / EstimatePointWiseCovarianceCPU
    estimate,        \* which of the two runs
    est_n,           \* points.GetLength()
    check,           \* what tree.HybridIndex(radius) returns
    index_calls,     \* calls of tree.HybridIndex (history)
    search_calls,    \* calls of tree.HybridSearch (history)
    estage,          \* "index" | "search" | "loop" | "fatal"
    neighbour_counts_ptr,  \* per point: count reported by the hybrid search
    color_gradients_ptr,   \* output, 3 entries per point
    covariances_ptr,       \* output, 9 entries per point
    out_writes,      \* per output entry: the workload_idx of every write to
                     \* it, in order (history)
    solver_calls,    \* per point: calls of solve_svd3x3 / of the covariance
                     \* kernel (history)
    epc,             \* per point: "todo" | "done"
    \* ---- solve_svd3x3 (SVD3x3CUDA.cuh)
    svd_U,           \* scalar_t U[9]
    svd_S,           \* scalar_t S[3]
    sigma,           \* S[3] as svd returned it (history)
    svd_V,           \* scalar_t V[9]
    rhs,             \* the right-hand side b1, b2, b3
    Ainv,            \* scalar_t Ainv[9]
    sol,             \* the outputs x1, x2, x3
    spc,             \* position: "svd" | "sigma" | "compose" | "solve" |
                     \* "done"
    \* ---- det3x3 (SVD3x3CUDA.cuh)
    det_m,           \* the arguments m00, m01, ..., m22, row-major
    det_ret,         \* the value det3x3 returned
    dpc,             \* position: "call" | "done"
    \* ---- offsets of Get3x3SxyLinearSystem (ComputeTransformCPU.cpp)
    src_length,      \* source_points.GetLength(), an int64_t
    loop_n,          \* int n, the bound of both blocked_range<int>
    src_idx,         \* workload_idx of a pair with a valid correspondence
    corr_idx,        \* correspondence_indices[workload_idx], an int64_t
    mean_reads,      \* offsets the first pass reads for the pair
    sxy_reads,       \* offsets the second pass reads for the pair
    ipc,             \* position: "length" | "first" | "second" | "done" |
                     \* "skipped"
    \* ---- neighbour loop of EstimatePointWiseColorGradientCPU
    query,           \* workload_idx of the iteration
    nb_count,        \* neighbour_count of the point
    nb_indices,      \* neighbour_indices_ptr, max_nn slots per point
    loop_i,          \* int i of the neighbour loop
    AtA,             \* float AtA[9]
    Atb,             \* float Atb[3], carried as 3 * Atb
    a_rows,          \* the rows A accumulated by the loop (history)
    reads,           \* offsets read from points_ptr and colors_ptr by the
                     \* loop (history)
    solve_arg,       \* the matrix handed to solve_svd3x3
    gpc,             \* position: "loop" | "constraint" | "symmetry" |
                     \* "solve" | "done"
    \* ---- svd (SVD3x3CUDA.cuh)
    svd_a,           \* a11 .. a33, row-major, the input A of svd
    regs,            \* per element type, the un<scalar_t> locals of svd
    stage,           \* per element type, the position inside svd
    sweep            \* the loop variable i of the Jacobi iteration

\* What Get3x3SxyLinearSystem hands back to its caller.
ovars == <<Sxy, mean_s, mean_t, inlier_count>>

rvars == <<kind, kern, n, correspondence_indices, next, pc, cur,
           tmp, acc, hits, holder, result, mean_1x7, pass, global_sum,
           phase, ovars>>

pvars == <<points, has_colors, depth_scale, depth, depth_before, writers,
           image_colors, ppc, critical>>

tvars == <<U, VT, S, R, t, rtpc>>

\* The index and the search that precede the loop.
hvars == <<check, index_calls, search_calls, estage>>

evars == <<estimate, est_n, hvars, neighbour_counts_ptr, color_gradients_ptr,
           covariances_ptr, out_writes, solver_calls, epc>>

svars == <<svd_U, svd_S, sigma, svd_V, rhs, Ainv, sol, spc>>

dvars == <<det_m, det_ret, dpc>>

ivars == <<src_length, loop_n, src_idx, corr_idx, mean_reads, sxy_reads, ipc>>

gvars == <<query, nb_count, nb_indices, loop_i, AtA, Atb, a_rows, reads,
           solve_arg, gpc>>

fvars == <<svd_a, regs, stage, sweep>>

vars == <<rvars, pvars, tvars, evars, svars, dvars, ivars, gvars, fvars>>

\* What each of the programs leaves alone.
nonReduce == <<pvars, tvars, evars, svars, dvars, ivars, gvars, fvars>>
nonProject == <<rvars, tvars, evars, svars, dvars, ivars, gvars, fvars>>
nonRt == <<rvars, pvars, evars, svars, dvars, ivars, gvars, fvars>>
nonEstimate == <<rvars, pvars, tvars, svars, dvars, ivars, gvars, fvars>>
nonSolve == <<rvars, pvars, tvars, evars, dvars, ivars, gvars, fvars>>
nonDet == <<rvars, pvars, tvars, evars, svars, ivars, gvars, fvars>>
nonIndex == <<rvars, pvars, tvars, evars, svars, dvars, gvars, fvars>>
nonGradient == <<rvars, pvars, tvars, evars, svars, dvars, ivars, fvars>>
nonSvd == <<rvars, pvars, tvars, evars, svars, dvars, ivars, gvars>>

\* ------------------------------------------------- the programs at rest

\* No projection is running.
Nobody == -1

\* An output the callee has not written yet.
Unset == "unset"

OutputsUnset ==
    /\ Sxy = Unset
    /\ mean_s = Unset
    /\ mean_t = Unset
    /\ inlier_count = Unset

ProjectIdle ==
    /\ points = <<>>
    /\ has_colors = FALSE
    /\ depth_scale = 1
    /\ depth = <<>>
    /\ depth_before = <<>>
    /\ writers = <<>>
    /\ image_colors = <<>>
    /\ ppc = <<>>
    /\ critical = Nobody

\* No reduction is running.
ReduceIdle ==
    /\ kind = "PointToPlane"
    /\ kern = "L2"
    /\ n = 0
    /\ correspondence_indices = <<>>
    /\ next = 0
    /\ pc = <<>>
    /\ cur = <<>>
    /\ tmp = <<>>
    /\ acc = <<>>
    /\ hits = <<>>
    /\ holder = <<>>
    /\ result = <<>>
    /\ mean_1x7 = <<>>
    /\ pass = 1
    /\ global_sum = <<>>
    /\ phase = "done"
    /\ OutputsUnset

\* No estimation is running.
EstimateIdle ==
    /\ estimate = "ColorGradient"
    /\ est_n = 0
    /\ check = TRUE
    /\ index_calls = 0
    /\ search_calls = 0
    /\ estage = "loop"
    /\ neighbour_counts_ptr = <<>>
    /\ color_gradients_ptr = <<>>
    /\ covariances_ptr = <<>>
    /\ out_writes = <<>>
    /\ solver_calls = <<>>
    /\ epc = <<>>

\* No linear system is being solved.
SolveIdle ==
    /\ svd_U = <<>>
    /\ svd_S = <<>>
    /\ sigma = <<>>
    /\ svd_V = <<>>
    /\ rhs = <<>>
    /\ Ainv = <<>>
    /\ sol = <<>>
    /\ spc = "done"

\* No rotation is being computed.
RtIdle ==
    /\ U = <<>>
    /\ VT = <<>>
    /\ S = <<>>
    /\ R = <<>>
    /\ t = <<>>
    /\ rtpc = "done"

\* No determinant is being computed.
DetIdle ==
    /\ det_m = <<>>
    /\ det_ret = 0
    /\ dpc = "done"

\* No offset is being computed.
IndexIdle ==
    /\ src_length = <<>>
    /\ loop_n = <<>>
    /\ src_idx = <<>>
    /\ corr_idx = <<>>
    /\ mean_reads = <<>>
    /\ sxy_reads = <<>>
    /\ ipc = "done"

\* No gradient is being estimated.
GradientIdle ==
    /\ query = 0
    /\ nb_count = 0
    /\ nb_indices = <<>>
    /\ loop_i = 1
    /\ AtA = <<>>
    /\ Atb = <<>>
    /\ a_rows = <<>>
    /\ reads = {}
    /\ solve_arg = <<>>
    /\ gpc = "done"

\* No svd call is in progress.
SvdIdle ==
    /\ svd_a = <<>>
    /\ regs = <<>>
    /\ stage = <<>>
    /\ sweep = 0

\* ------------------------------------------------------------ small helpers

RECURSIVE SumFn(_, _)
SumFn(f, D) ==
    IF D = {} THEN 0
    ELSE LET x == CHOOSE y \in D : TRUE IN f[x] + SumFn(f, D \ {x})

Zeros(len) == [j \in 0..(len - 1) |-> 0]

\* The function f on 0..k as an explicit table.
RECURSIVE Tabulate(_, _)
Tabulate(f, k) ==
    IF k = 0 THEN (0 :> f[0]) ELSE Tabulate(f, k - 1) @@ (k :> f[k])

Workers == 0..(NumWorkers - 1)

Kinds == {"PointToPlane", "ColoredICP", "PointToPoint"}

\* Length of the accumulator of the reduction of kernel k in pass p.
AccLen(k, p) ==
    CASE k = "PointToPlane" -> 29
      [] k = "ColoredICP" -> 29
      [] k = "PointToPoint" /\ p = 1 -> 7
      [] k = "PointToPoint" /\ p = 2 -> 9

\* ------------------------------------------------------------------ inputs

\* Flat coordinate arrays (offset 3*index + axis), small integer values.
source_points_ptr == [o \in 0..(3 * MaxN + 2) |-> ((7 * o + 3) % 5) - 2]
\* Two target points with their normals, intensities and color gradients.
Targets == {0, 1}
target_points_ptr == [o \in 0..5 |-> <<0, -1, 2, 1, 0, -1>>[o + 1]]
target_normals_ptr == [o \in 0..5 |-> <<1, 2, -1, 2, -1, 3>>[o + 1]]
target_color_gradients_ptr == [o \in 0..5 |-> <<1, 0, 2, -1, 1, 0>>[o + 1]]
target_colors_ptr == [c \in Targets |-> <<2, 1>>[c + 1]]
source_colors_ptr == [i \in 0..MaxN |-> (i % 3) + 1]

\* Robust kernels: residual -> weight.  "L2" weighs every residual 1,
\* "Step" weighs a residual within 1 of zero twice as much as a larger one.
Kernels == {"L2", "Step"}

Abs(x) == IF x < 0 THEN -x ELSE x

op(k, r) ==
    CASE k = "L2" -> 1
      [] k = "Step" -> IF Abs(r) <= 1 THEN 2 ELSE 1

\* --------------------------------------------------------------- evaluators

\* The 6-vector with the entries of tuple tup at the offsets 0..5.
Vec6(tup) == (0 :> tup[1]) @@ (1 :> tup[2]) @@ (2 :> tup[3]) @@ (3 :> tup[4])
             @@ (4 :> tup[5]) @@ (5 :> tup[6])

\* Point-to-plane residual and Jacobian of source point i against target
\* point c.
PointToPlaneAt(i, c) ==
    LET sx == source_points_ptr[3 * i]
        sy == source_points_ptr[3 * i + 1]
        sz == source_points_ptr[3 * i + 2]
        tx == target_points_ptr[3 * c]
        ty == target_points_ptr[3 * c + 1]
        tz == target_points_ptr[3 * c + 2]
        nx == target_normals_ptr[3 * c]
        ny == target_normals_ptr[3 * c + 1]
        nz == target_normals_ptr[3 * c + 2]
    IN  [valid |-> TRUE,
         J |-> Vec6(<<nz * sy - ny * sz, nx * sz - nz * sx, ny * sx - nx * sy,
                      nx, ny, nz>>),
         r |-> (sx - tx) * nx + (sy - ty) * ny + (sz - tz) * nz]

\* Colored-ICP residuals and Jacobians of source point i against target
\* point c: a geometric (point-to-plane) pair scaled by lg =
\* sqrt_lambda_geometric and a photometric pair scaled by lp =
\* sqrt_lambda_photometric.
ColoredICPAt(i, c, lg, lp) ==
    LET g   == PointToPlaneAt(i, c)
        s   == [a \in 0..2 |-> source_points_ptr[3 * i + a]]
        tp   == [a \in 0..2 |-> target_points_ptr[3 * c + a]]
        nt  == [a \in 0..2 |-> target_normals_ptr[3 * c + a]]
        dit == [a \in 0..2 |-> target_color_gradients_ptr[3 * c + a]]
        d   == g.r
        sp  == [a \in 0..2 |-> s[a] - d * nt[a]]
        isp == dit[0] * (sp[0] - tp[0]) + dit[1] * (sp[1] - tp[1])
                 + dit[2] * (sp[2] - tp[2]) + target_colors_ptr[c]
        sc  == dit[0] * nt[0] + dit[1] * nt[1] + dit[2] * nt[2]
        m   == [a \in 0..2 |-> sc * nt[a] - dit[a]]
    IN  [valid |-> TRUE,
         J_G |-> Vec6(<<lg * g.J[0], lg * g.J[1], lg * g.J[2],
                        lg * g.J[3], lg * g.J[4], lg * g.J[5]>>),
         J_I |-> Vec6(<<lp * (s[2] * m[1] - s[1] * m[2]),
                        lp * (s[0] * m[2] - s[2] * m[0]),
                        lp * (s[1] * m[0] - s[0] * m[1]),
                        lp * m[0], lp * m[1], lp * m[2]>>),
         r_G |-> lg * d,
         r_I |-> lp * (source_colors_ptr[i] - isp)]

\* The evaluators tabulated over the source and target points, with
\* sqrt_lambda_geometric = 2 and sqrt_lambda_photometric = 1.
PointToPlaneTable == [i \in 0..MaxN |-> [c \in Targets |-> PointToPlaneAt(i, c)]]
ColoredICPTable ==
    [i \in 0..MaxN |-> [c \in Targets |-> ColoredICPAt(i, c, 2, 1)]]

\* What the kernel holds when the evaluator returns false without writing
\* its outputs: J_ij[6] = {0}, r = 0.
ZeroJ == Vec6(<<0, 0, 0, 0, 0, 0>>)

\* Point-to-plane evaluator of observation i.
GetJacobianPointToPlane(i) ==
    IF correspondence_indices[i] = -1
    THEN [valid |-> FALSE, J |-> ZeroJ, r |-> 0]
    ELSE PointToPlaneTable[i][correspondence_indices[i]]

\* Colored-ICP evaluator of observation i.
GetJacobianColoredICP(i) ==
    IF correspondence_indices[i] = -1
    THEN [valid |-> FALSE, J_G |-> ZeroJ, J_I |-> ZeroJ, r_G |-> 0, r_I |-> 0]
    ELSE ColoredICPTable[i][correspondence_indices[i]]

\* ---------------------------------------------------------- reduction bodies

\* The addend of entry j of the point-to-plane accumulator for one valid
\* observation: A[0..20] the packed AtA, A[21..26] Atb, A[27] the residual,
\* A[28] the inlier count.
PointToPlaneTerm(J, w, r, j) ==
    CASE j = 0 -> J[0] * w * J[0]
      [] j = 1 -> J[1] * w * J[0]
      [] j = 2 -> J[1] * w * J[1]
      [] j = 3 -> J[2] * w * J[0]
      [] j = 4 -> J[2] * w * J[1]
      [] j = 5 -> J[2] * w * J[2]
      [] j = 6 -> J[3] * w * J[0]
      [] j = 7 -> J[3] * w * J[1]
      [] j = 8 -> J[3] * w * J[2]
      [] j = 9 -> J[3] * w * J[3]
      [] j = 10 -> J[4] * w * J[0]
      [] j = 11 -> J[4] * w * J[1]
      [] j = 12 -> J[4] * w * J[2]
      [] j = 13 -> J[4] * w * J[3]
      [] j = 14 -> J[4] * w * J[4]
      [] j = 15 -> J[5] * w * J[0]
      [] j = 16 -> J[5] * w * J[1]
      [] j = 17 -> J[5] * w * J[2]
      [] j = 18 -> J[5] * w * J[3]
      [] j = 19 -> J[5] * w * J[4]
      [] j = 20 -> J[5] * w * J[5]
      [] j = 21 -> J[0] * w * r
      [] j = 22 -> J[1] * w * r
      [] j = 23 -> J[2] * w * r
      [] j = 24 -> J[3] * w * r
      [] j = 25 -> J[4] * w * r
      [] j = 26 -> J[5] * w * r
      [] j = 27 -> r * r
      [] j = 28 -> 1

\* Faulty variant: entry 27 accumulates the weighted residual w * r * r.
PointToPlaneAddendsWeightedResidual(k, e) ==
    LET w == op(k, e.r)
    IN  [Tabulate([j \in 0..28 |-> PointToPlaneTerm(e.J, w, e.r, j)], 28)
            EXCEPT ![27] = w * e.r * e.r]

\* Faulty variant: the addends of the packed entries (3,1) and (3,2) are exchanged.
PointToPlaneAddendsSwapped(k, e) ==
    LET w == op(k, e.r)
        add == Tabulate([j \in 0..28 |-> PointToPlaneTerm(e.J, w, e.r, j)], 28)
    IN  [add EXCEPT ![7] = add[8], ![8] = add[7]]

\* The 29 addends of one observation with evaluator output e under robust
\* kernel k: w = op(r), then the terms of lines 85-115.
PointToPlaneAddends(k, e) ==
    LET w == op(k, e.r)
    IN  Tabulate([j \in 0..28 |-> PointToPlaneTerm(e.J, w, e.r, j)], 28)

\* The addends of every (kernel, source point, target point), computed once.
PointToPlaneAddendTable ==
    [k \in Kernels |-> [i \in 0..MaxN |-> [c \in Targets |->
        PointToPlaneAddends(k, PointToPlaneTable[i][c])]]]

\* Faulty variant: the addends are accumulated without the test of valid.
PointToPlaneBodyUnguarded(A, i) ==
    LET add == PointToPlaneAddends(kern, GetJacobianPointToPlane(i))
    IN  [j \in 0..28 |-> A[j] + add[j]]

\* One iteration of the point-to-plane loop on accumulator A.
PointToPlaneBody(A, i) ==
    LET e == GetJacobianPointToPlane(i)
        add == PointToPlaneAddendTable[kern][i][correspondence_indices[i]]
    IN  IF e.valid
        THEN [j \in 0..28 |-> A[j] + add[j]]
        ELSE A

\* The addend of entry j of the colored-ICP accumulator for one valid
\* observation e with weights w_G, w_I.
ColoredICPTerm(e, w_G, w_I, j) ==
    LET J_G == e.J_G
        J_I == e.J_I
    IN
    CASE j = 0 -> J_G[0] * w_G * J_G[0] + J_I[0] * w_I * J_I[0]
      [] j = 1 -> J_G[1] * w_G * J_G[0] + J_I[1] * w_I * J_I[0]
      [] j = 2 -> J_G[1] * w_G * J_G[1] + J_I[1] * w_I * J_I[1]
      [] j = 3 -> J_G[2] * w_G * J_G[0] + J_I[2] * w_I * J_I[0]
      [] j = 4 -> J_G[2] * w_G * J_G[1] + J_I[2] * w_I * J_I[1]
      [] j = 5 -> J_G[2] * w_G * J_G[2] + J_I[2] * w_I * J_I[2]
      [] j = 6 -> J_G[3] * w_G * J_G[0] + J_I[3] * w_I * J_I[0]
      [] j = 7 -> J_G[3] * w_G * J_G[1] + J_I[3] * w_I * J_I[1]
      [] j = 8 -> J_G[3] * w_G * J_G[2] + J_I[3] * w_I * J_I[2]
      [] j = 9 -> J_G[3] * w_G * J_G[3] + J_I[3] * w_I * J_I[3]
      [] j = 10 -> J_G[4] * w_G * J_G[0] + J_I[4] * w_I * J_I[0]
      [] j = 11 -> J_G[4] * w_G * J_G[1] + J_I[4] * w_I * J_I[1]
      [] j = 12 -> J_G[4] * w_G * J_G[2] + J_I[4] * w_I * J_I[2]
      [] j = 13 -> J_G[4] * w_G * J_G[3] + J_I[4] * w_I * J_I[3]
      [] j = 14 -> J_G[4] * w_G * J_G[4] + J_I[4] * w_I * J_I[4]
      [] j = 15 -> J_G[5] * w_G * J_G[0] + J_I[5] * w_I * J_I[0]
      [] j = 16 -> J_G[5] * w_G * J_G[1] + J_I[5] * w_I * J_I[1]
      [] j = 17 -> J_G[5] * w_G * J_G[2] + J_I[5] * w_I * J_I[2]
      [] j = 18 -> J_G[5] * w_G * J_G[3] + J_I[5] * w_I * J_I[3]
      [] j = 19 -> J_G[5] * w_G * J_G[4] + J_I[5] * w_I * J_I[4]
      [] j = 20 -> J_G[5] * w_G * J_G[5] + J_I[5] * w_I * J_I[5]
      [] j = 21 -> J_G[0] * w_G * e.r_G + J_I[0] * w_I * e.r_I
      [] j = 22 -> J_G[1] * w_G * e.r_G + J_I[1] * w_I * e.r_I
      [] j = 23 -> J_G[2] * w_G * e.r_G + J_I[2] * w_I * e.r_I
      [] j = 24 -> J_G[3] * w_G * e.r_G + J_I[3] * w_I * e.r_I
      [] j = 25 -> J_G[4] * w_G * e.r_G + J_I[4] * w_I * e.r_I
      [] j = 26 -> J_G[5] * w_G * e.r_G + J_I[5] * w_I * e.r_I
      [] j = 27 -> e.r_G * e.r_G + e.r_I * e.r_I
      [] j = 28 -> 1

\* Faulty variant: a valid observation counts as two inliers, one per residual.
ColoredICPAddendsTwoInliers(k, e) ==
    LET w_G == op(k, e.r_G)
        w_I == op(k, e.r_I)
    IN  [Tabulate([j \in 0..28 |-> ColoredICPTerm(e, w_G, w_I, j)], 28)
            EXCEPT ![28] = 2]

\* Faulty variant: the photometric term is weighted with the geometric
\* weight.
ColoredICPAddendsOneWeight(k, e) ==
    LET w_G == op(k, e.r_G)
    IN  Tabulate([j \in 0..28 |-> ColoredICPTerm(e, w_G, w_G, j)], 28)

\* The 29 addends of one observation with evaluator output e under robust
\* kernel k: w_G = op(r_G), w_I = op(r_I), then the terms of lines 214-244.
ColoredICPAddends(k, e) ==
    LET w_G == op(k, e.r_G)
        w_I == op(k, e.r_I)
    IN  Tabulate([j \in 0..28 |-> ColoredICPTerm(e, w_G, w_I, j)], 28)

\* The addends of every (kernel, source point, target point), computed once.
ColoredICPAddendTable ==
    [k \in Kernels |-> [i \in 0..MaxN |-> [c \in Targets |->
        ColoredICPAddends(k, ColoredICPTable[i][c])]]]

\* One iteration of the colored-ICP loop on accumulator A.
ColoredICPBody(A, i) ==
    LET e == GetJacobianColoredICP(i)
        add == ColoredICPAddendTable[kern][i][correspondence_indices[i]]
    IN  IF e.valid
        THEN [j \in 0..28 |-> A[j] + add[j]]
        ELSE A

\* Faulty variant: the count grows for a sentinel correspondence as well.
MeansBodyCountsAll(mean_reduction, i) ==
    IF correspondence_indices[i] # -1
    THEN LET target_idx == 3 * correspondence_indices[i]
         IN  [j \in 0..6 |->
                mean_reduction[j] +
                CASE j = 0 -> source_points_ptr[3 * i]
                  [] j = 1 -> source_points_ptr[3 * i + 1]
                  [] j = 2 -> source_points_ptr[3 * i + 2]
                  [] j = 3 -> target_points_ptr[target_idx]
                  [] j = 4 -> target_points_ptr[target_idx + 1]
                  [] j = 5 -> target_points_ptr[target_idx + 2]
                  [] j = 6 -> 1]
    ELSE [mean_reduction EXCEPT ![6] = @ + 1]

\* One iteration of the first pass of Get3x3SxyLinearSystem on the 7-entry
\* accumulator: 3 source sums, 3 target sums, the count.
MeansBody(mean_reduction, i) ==
    IF correspondence_indices[i] # -1
    THEN LET target_idx == 3 * correspondence_indices[i]
         IN  [j \in 0..6 |->
                mean_reduction[j] +
                CASE j = 0 -> source_points_ptr[3 * i]
                  [] j = 1 -> source_points_ptr[3 * i + 1]
                  [] j = 2 -> source_points_ptr[3 * i + 2]
                  [] j = 3 -> target_points_ptr[target_idx]
                  [] j = 4 -> target_points_ptr[target_idx + 1]
                  [] j = 5 -> target_points_ptr[target_idx + 2]
                  [] j = 6 -> 1]
    ELSE mean_reduction

\* The quotient of two doubles a / b, carried as the exact fraction
\* num / den.  A zero divisor leaves no number: 0.0 / 0.0 is NaN, and
\* x / 0.0 an infinity.
NaN == [num |-> 0, den |-> 0]

Quot(a, b) == IF a = 0 /\ b = 0 THEN NaN ELSE [num |-> a, den |-> b]

\* A value that is a number (neither NaN nor an infinity).
IsNumber(q) == q.den # 0

\* for (i = 0; i < 6; i++) mean_1x7[i] = mean_1x7[i] / mean_1x7[6]
DivideMeans(m) == [i \in 0..6 |-> IF i < 6 THEN Quot(m[i], m[6]) ELSE m[i]]

\* One iteration of the second pass on the 9-entry accumulator.  A mean is
\* the fraction num / den the division left, a difference (x - mean) is
\* carried as its numerator den * x - num, so every entry of the 9-entry
\* accumulator is the numerator of the code's value over the denominator
\* mean_1x7[6]^2 (den is the count for every mean).
SxyBody(sxy_1x9_reduction, i) ==
    IF correspondence_indices[i] # -1
    THEN [k \in 0..8 |->
            LET row == k % 3
                col == k \div 3
                source_idx == 3 * i + row
                target_idx == 3 * correspondence_indices[i] + col
                ms == mean_1x7[row]
                mt == mean_1x7[3 + col]
            IN  sxy_1x9_reduction[k] +
                (ms.den * source_points_ptr[source_idx] - ms.num) *
                (mt.den * target_points_ptr[target_idx] - mt.num)]
    ELSE sxy_1x9_reduction

\* The loop body the running reduction applies to index i.
Body(A, i) ==
    CASE kind = "PointToPlane" -> PointToPlaneBody(A, i)
      [] kind = "ColoredICP" -> ColoredICPBody(A, i)
      [] kind = "PointToPoint" /\ pass = 1 -> MeansBody(A, i)
      [] kind = "PointToPoint" /\ pass = 2 -> SxyBody(A, i)

\* Faulty variant: the merge loop stops one entry short, the last entry stays 0.
CombineOneShort(a, b) ==
    [j \in DOMAIN a |-> IF j + 1 \in DOMAIN a THEN a[j] + b[j] ELSE 0]

\* The reduction operation: the elementwise sum of two partial accumulators.
Combine(a, b) == [j \in DOMAIN a |-> a[j] + b[j]]

\* Faulty variant: every worker accumulates into the one shared accumulator.
AccOfShared(w) == 0

\* The accumulator a worker's A[k] += ... goes to: its private copy
\* (reduction(+ : A[:29]) / the by-value accumulator of the TBB body).
AccOf(w) == w

\* ------------------------------------------------------- reduction: actions

Is29(k) == k \in {"PointToPlane", "ColoredICP"}

\* Faulty variant: the partial accumulators are not zero-initialised.
FreshAccNonZero(k, p) == [w \in Workers |-> [j \in 0..(AccLen(k, p) - 1) |-> 1]]

\* A fresh parallel reduction: every partial accumulator is the identity.
FreshAcc(k, p) == [w \in Workers |-> Zeros(AccLen(k, p))]

InitReduce ==
    /\ kind \in Kinds
    /\ kern \in (IF Is29(kind) THEN Kernels ELSE {"L2"})
    /\ n \in 0..MaxN
    /\ correspondence_indices \in
           [0..(n - 1) -> {-1} \cup Targets]
    /\ next = 0
    /\ pc = [w \in Workers |-> "idle"]
    /\ cur = [w \in Workers |-> 0]
    /\ tmp = [w \in Workers |-> Zeros(AccLen(kind, 1))]
    /\ acc = FreshAcc(kind, 1)
    /\ hits = [i \in 0..(n - 1) |-> 0]
    /\ holder = [i \in 0..(n - 1) |-> -1]
    /\ result = Zeros(AccLen(kind, 1))
    /\ mean_1x7 = Zeros(7)
    /\ pass = 1
    /\ global_sum = Zeros(29)
    /\ phase = "reduce"
    /\ OutputsUnset
    /\ ProjectIdle
    /\ RtIdle
    /\ EstimateIdle
    /\ SolveIdle
    /\ DetIdle
    /\ IndexIdle
    /\ GradientIdle
    /\ SvdIdle

\* Worker w is handed the next workload_idx and reads its accumulator.
Load(w) ==
    /\ phase = "reduce"
    /\ pc[w] = "idle"
    /\ next < n
    /\ cur' = [cur EXCEPT ![w] = next]
    /\ next' = next + 1
    /\ tmp' = [tmp EXCEPT ![w] = acc[AccOf(w)]]
    /\ pc' = [pc EXCEPT ![w] = "loaded"]
    /\ UNCHANGED nonReduce
    /\ UNCHANGED ovars
    /\ UNCHANGED <<kind, kern, n, correspondence_indices, acc,
                   hits, holder, result, mean_1x7, pass, global_sum, phase>>

\* Worker w writes back its accumulator with the iteration's contribution.
Store(w) ==
    /\ phase = "reduce"
    /\ pc[w] = "loaded"
    /\ acc' = [acc EXCEPT ![AccOf(w)] = Body(tmp[w], cur[w])]
    /\ hits' = [hits EXCEPT ![cur[w]] = @ + 1]
    /\ holder' = [holder EXCEPT ![cur[w]] = w]
    /\ pc' = [pc EXCEPT ![w] = "idle"]
    /\ UNCHANGED nonReduce
    /\ UNCHANGED ovars
    /\ UNCHANGED <<kind, kern, n, correspondence_indices, next,
                   cur, tmp, result, mean_1x7, pass, global_sum, phase>>

\* All iterations are done and no worker is inside one.
LoopDone == next = n /\ \A w \in Workers : pc[w] # "loaded"

\* The partial of w2 is merged into the partial of w1.
Join(w1, w2) ==
    /\ phase = "reduce"
    /\ LoopDone
    /\ w1 # w2
    /\ pc[w1] = "idle"
    /\ pc[w2] = "idle"
    /\ acc' = [acc EXCEPT ![AccOf(w1)] = Combine(acc[AccOf(w1)], acc[AccOf(w2)])]
    /\ pc' = [pc EXCEPT ![w2] = "joined"]
    /\ holder' = [i \in 0..(n - 1) |-> IF holder[i] = w2 THEN w1 ELSE holder[i]]
    /\ UNCHANGED nonReduce
    /\ UNCHANGED ovars
    /\ UNCHANGED <<kind, kern, n, correspondence_indices, next,
                   cur, tmp, hits, result, mean_1x7, pass, global_sum, phase>>

\* Faulty variant: the reduction returns a partial before the others are
\* merged into it.
AllMergedUnchecked(w) == TRUE

\* Every partial but that of w has been merged: parallel_reduce returns only
\* then.
AllMerged(w) == \A v \in Workers \ {w} : pc[v] = "joined"

\* The last partial left is the value of the reduction.
Finish(w) ==
    /\ phase = "reduce"
    /\ LoopDone
    /\ pc[w] = "idle"
    /\ AllMerged(w)
    /\ result' = acc[AccOf(w)]
    /\ phase' = IF Is29(kind) THEN "copy"
                ELSE IF pass = 1 THEN "divide" ELSE "output"
    /\ UNCHANGED nonReduce
    /\ UNCHANGED ovars
    /\ UNCHANGED <<kind, kern, n, correspondence_indices, next,
                   pc, cur, tmp, acc, hits, holder, mean_1x7, pass,
                   global_sum>>

\* global_sum[i] = A_1x29[i] for the 29 entries.
CopyOut ==
    /\ phase = "copy"
    /\ global_sum' = [i \in 0..28 |-> result[i]]
    /\ phase' = "done"
    /\ UNCHANGED nonReduce
    /\ UNCHANGED ovars
    /\ UNCHANGED <<kind, kern, n, correspondence_indices, next,
                   pc, cur, tmp, acc, hits, holder, result, mean_1x7, pass>>

\* mean_1x7[i] = mean_1x7[i] / mean_1x7[6], then the second reduction starts
\* from fresh accumulators.
Divide ==
    /\ phase = "divide"
    /\ mean_1x7' = DivideMeans(result)
    /\ pass' = 2
    /\ next' = 0
    /\ pc' = [w \in Workers |-> "idle"]
    /\ acc' = FreshAcc(kind, 2)
    /\ tmp' = [w \in Workers |-> Zeros(AccLen(kind, 2))]
    /\ hits' = [i \in 0..(n - 1) |-> 0]
    /\ holder' = [i \in 0..(n - 1) |-> -1]
    /\ phase' = "reduce"
    /\ UNCHANGED nonReduce
    /\ UNCHANGED ovars
    /\ UNCHANGED <<kind, kern, n, correspondence_indices, cur,
                   result, global_sum>>

\* The output loop of Get3x3SxyLinearSystem.  sxy_1x9 holds numerators over
\* count^2, so sxy_1x9[i] / mean_1x7[6] is the fraction over count^3.
\* Faulty variant: the two means are written to each other's tensor.
OutputsOfSwapped(sxy_1x9, m) ==
    [Sxy |-> [j \in 0..2 |-> [k \in 0..2 |->
                 Quot(sxy_1x9[3 * j + k], m[6] * m[6] * m[6])]],
     mean_s |-> [j \in 0..2 |-> m[j + 3]],
     mean_t |-> [j \in 0..2 |-> m[j]],
     inlier_count |-> m[6]]

\* Faulty variant: entry i of sxy_1x9 is written to row i % 3, column i / 3.
OutputsOfTransposed(sxy_1x9, m) ==
    [Sxy |-> [j \in 0..2 |-> [k \in 0..2 |->
                 Quot(sxy_1x9[3 * k + j], m[6] * m[6] * m[6])]],
     mean_s |-> [j \in 0..2 |-> m[j]],
     mean_t |-> [j \in 0..2 |-> m[j + 3]],
     inlier_count |-> m[6]]

\* sxy_ptr[j * 3 + k] = sxy_1x9[i++] / mean_1x7[6]; mean_s_ptr[j] =
\* mean_1x7[j]; mean_t_ptr[j] = mean_1x7[j + 3]; inlier_count = mean_1x7[6].
\* The formal parameters mean_t, mean_s are bound by the caller, in this
\* order, to its tensors of the same names.
OutputsOf(sxy_1x9, m) ==
    [Sxy |-> [j \in 0..2 |-> [k \in 0..2 |->
                 Quot(sxy_1x9[3 * j + k], m[6] * m[6] * m[6])]],
     mean_s |-> [j \in 0..2 |-> m[j]],
     mean_t |-> [j \in 0..2 |-> m[j + 3]],
     inlier_count |-> m[6]]

Output ==
    /\ phase = "output"
    /\ Sxy' = OutputsOf(result, mean_1x7).Sxy
    /\ mean_s' = OutputsOf(result, mean_1x7).mean_s
    /\ mean_t' = OutputsOf(result, mean_1x7).mean_t
    /\ inlier_count' = OutputsOf(result, mean_1x7).inlier_count
    /\ phase' = "done"
    /\ UNCHANGED nonReduce
    /\ UNCHANGED <<kind, kern, n, correspondence_indices, next,
                   pc, cur, tmp, acc, hits, holder, result, mean_1x7, pass,
                   global_sum>>

NextReduce ==
    \/ \E w \in Workers : Load(w)
    \/ \E w \in Workers : Store(w)
    \/ \E w1, w2 \in Workers : Join(w1, w2)
    \/ \E w \in Workers : Finish(w)
    \/ CopyOut
    \/ Divide
    \/ Output

SpecReduce == InitReduce /\ [][NextReduce]_vars

\* ------------------------------------------------- reduction: the properties

\* Whether the evaluator of the running kernel reports observation i valid.
Valid(i) ==
    IF kind = "ColoredICP"
    THEN GetJacobianColoredICP(i).valid
    ELSE GetJacobianPointToPlane(i).valid

ValidObs == {i \in 0..(n - 1) : Valid(i)}

\* Residual, Jacobian and weight of observation i of the point-to-plane kernel.
ResidualOf(i) == GetJacobianPointToPlane(i).r
JacobianOf(i) == GetJacobianPointToPlane(i).J
WeightOf(i) == op(kern, ResidualOf(i))

\* Flat index of entry (a, b), a >= b, of the packed symmetric matrix.
PackedIndex(a, b) == (a * (a + 1)) \div 2 + b

\* The accumulator obtained by folding the observations 0..k-1 one after the
\* other, starting from the identity.
RECURSIVE SeqFold(_)
SeqFold(k) ==
    IF k = 0 THEN Zeros(AccLen(kind, pass)) ELSE Body(SeqFold(k - 1), k - 1)

\* The first-pass accumulator folded sequentially.
RECURSIVE SeqMeans(_)
SeqMeans(k) == IF k = 0 THEN Zeros(7) ELSE MeansBody(SeqMeans(k - 1), k - 1)

\* The accumulator obtained by applying the loop body, from the identity, to
\* exactly the observations of D, each once.
RECURSIVE FoldOver(_)
FoldOver(D) ==
    IF D = {} THEN Zeros(AccLen(kind, pass))
    ELSE LET x == CHOOSE y \in D : \A z \in D : z <= y
         IN  Body(FoldOver(D \ {x}), x)

\* The workers whose partial has not been merged into another one.
Live == {w \in Workers : pc[w] # "joined"}

\* Worker w has just completed the body of an observation (a Store step).
Stored(w) == pc[w] = "loaded" /\ pc'[w] = "idle"

\* C1: in the point-to-plane and colored-ICP reductions, the iteration of an
\* observation the evaluator reports invalid, in particular of every index
\* whose correspondence is -1, leaves every one of the 29 accumulator entries
\* (and the result and the output tensor) unchanged.
C1_InvalidLeavesAccumulator ==
    [][\A w \in Workers :
          (/\ Is29(kind)
           /\ Stored(w)
           /\ (~Valid(cur[w]) \/ correspondence_indices[cur[w]] = -1))
          => (/\ \A v \in Workers : \A j \in 0..28 : acc'[v][j] = acc[v][j]
              /\ result' = result
              /\ global_sum' = global_sum)]_vars

\* C1 witness: an invalid observation has been processed next to a valid one.
C1_Witness ==
    /\ Is29(kind)
    /\ \E i \in 0..(n - 1) : hits[i] = 1 /\ correspondence_indices[i] = -1
    /\ \E i \in 0..(n - 1) : hits[i] = 1 /\ Valid(i)

\* C2 as stated: entry 27 is the weighted residual sum of w * r * r.
C2_WeightedResidual ==
    (phase = "done" /\ kind = "PointToPlane")
    => global_sum[27] =
         SumFn([i \in ValidObs |-> WeightOf(i) * ResidualOf(i) * ResidualOf(i)],
               ValidObs)

\* C2 amended: after the point-to-plane reduction entry 27 is the sum over
\* the valid observations of r * r, the robust weight not applied.
C2_UnweightedResidual ==
    (phase = "done" /\ kind = "PointToPlane")
    => global_sum[27] =
         SumFn([i \in ValidObs |-> ResidualOf(i) * ResidualOf(i)], ValidObs)

\* C2 witness: a finished point-to-plane reduction with a valid observation
\* whose weight is not 1 and whose residual is not 0.
C2_Witness ==
    /\ phase = "done"
    /\ kind = "PointToPlane"
    /\ \E i \in ValidObs : WeightOf(i) # 1 /\ ResidualOf(i) # 0

\* C3: after the point-to-plane reduction entry a*(a+1)/2+b, a >= b, is the
\* sum over the valid observations of J[a]*w*J[b], entry 21+k the sum of
\* J[k]*w*r, and the 21 packed indices are distinct and fill 0..20.
C3_PackedNormalEquations ==
    (phase = "done" /\ kind = "PointToPlane")
    => /\ \A a \in 0..5 : \A b \in 0..a :
            global_sum[PackedIndex(a, b)] =
              SumFn([i \in ValidObs |->
                        JacobianOf(i)[a] * WeightOf(i) * JacobianOf(i)[b]],
                    ValidObs)
       /\ \A k \in 0..5 :
            global_sum[21 + k] =
              SumFn([i \in ValidObs |->
                        JacobianOf(i)[k] * WeightOf(i) * ResidualOf(i)],
                    ValidObs)
       /\ (0..20) \subseteq {PackedIndex(a, b) : a \in 0..5, b \in 0..5}
       /\ \A a1, a2 \in 0..5 : \A b1 \in 0..a1 : \A b2 \in 0..a2 :
            PackedIndex(a1, b1) = PackedIndex(a2, b2) => (a1 = a2 /\ b1 = b2)
       /\ \A a \in 0..5 : \A b \in 0..a : PackedIndex(a, b) \in 0..20

\* C3 witness: a finished point-to-plane reduction over two valid
\* observations with different Jacobians and a weight that is not 1.
C3_Witness ==
    /\ phase = "done"
    /\ kind = "PointToPlane"
    /\ \E i, k \in ValidObs :
          /\ JacobianOf(i) # JacobianOf(k)
          /\ WeightOf(i) # 1

\* The observations whose body has completed in the running reduction.
Completed == {i \in 0..(n - 1) : hits[i] >= 1}

\* C4: in the point-to-plane and colored-ICP reductions the inlier count
\* grows by 1 per valid observation and by 0 per invalid one: while the
\* reduction runs the counts of the live partials add up to the number of
\* valid observations processed so far, and the final entry 28 is the number
\* of valid observations, between 0 and n.
C4_InlierCount ==
    Is29(kind)
    => /\ phase = "reduce"
          => SumFn([w \in Live |-> acc[w][28]], Live)
               = Cardinality(Completed \cap ValidObs)
       /\ phase = "done"
          => /\ global_sum[28] = Cardinality(ValidObs)
             /\ 0 <= global_sum[28]
             /\ global_sum[28] <= n

\* C4 witness: a finished colored-ICP reduction that counted an inlier and
\* skipped an invalid observation.
C4_Witness ==
    /\ phase = "done"
    /\ kind = "ColoredICP"
    /\ global_sum[28] >= 1
    /\ global_sum[28] < n

C6_NoLostUpdates ==
    /\ \A i \in 0..(n - 1) : hits[i] <= 1
    /\ phase = "reduce"
       => /\ \A w \in Workers :
                pc[w] # "joined"
                => acc[w] = FoldOver({i \in 0..(n - 1) : holder[i] = w})
          /\ LoopDone => \A i \in 0..(n - 1) : hits[i] = 1
          /\ pass = 1 => result = Zeros(AccLen(kind, 1))
    /\ phase # "done" => global_sum = Zeros(29)
    /\ phase \in {"copy", "divide", "output", "done"}
       => /\ \A i \in 0..(n - 1) : hits[i] = 1
          /\ result = FoldOver(0..(n - 1))

\* C6 witness: two workers are inside the body of two valid observations at
\* the same time.
C6_Witness ==
    /\ Is29(kind)
    /\ \E v, w \in Workers :
          /\ v # w
          /\ pc[v] = "loaded"
          /\ pc[w] = "loaded"
          /\ Valid(cur[v])
          /\ Valid(cur[w])

\* C14: ComputePosePointToPlaneCPU with every correspondence equal to -1,
\* for any n >= 0, keeps every partial accumulator at zero and hands the
\* decode step a global_sum whose 29 entries are all zero, so the inlier
\* count (entry 28) and the residual (entry 27) it reports are 0.
C14_AllSentinelZero ==
    kind = "PointToPlane" /\ (\A i \in 0..(n - 1) : correspondence_indices[i] = -1)
    => /\ \A w \in Workers : acc[w] = Zeros(29)
       /\ result = Zeros(29)
       /\ global_sum = Zeros(29)
       /\ phase = "done" => global_sum[27] = 0 /\ global_sum[28] = 0

\* A finished point-to-plane call over two source points, none of them
\* paired.
C14_Witness ==
    /\ kind = "PointToPlane"
    /\ phase = "done"
    /\ n >= 2
    /\ \A i \in 0..(n - 1) : correspondence_indices[i] = -1
    /\ \A i \in 0..(n - 1) : hits[i] = 1
    /\ global_sum = Zeros(29)

\* Evaluator output of observation i of the colored-ICP kernel.
ColoredOf(i) == GetJacobianColoredICP(i)

\* C16: in the colored-ICP reduction the geometric and the photometric term
\* of a valid observation go to the same 29-entry accumulator: over the
\* valid observations, entry a*(a+1)/2+b sums
\* J_G[a]*w_G*J_G[b] + J_I[a]*w_I*J_I[b], entry 21+k sums
\* J_G[k]*w_G*r_G + J_I[k]*w_I*r_I and entry 27 sums r_G*r_G + r_I*r_I,
\* with w_G = op(r_G) and w_I = op(r_I).
C16_ColoredTermsSummed ==
    kind = "ColoredICP" /\ phase = "done"
    => /\ \A a \in 0..5 : \A b \in 0..a :
             global_sum[PackedIndex(a, b)] =
               SumFn([i \in ValidObs |->
                        ColoredOf(i).J_G[a] * op(kern, ColoredOf(i).r_G)
                            * ColoredOf(i).J_G[b]
                        + ColoredOf(i).J_I[a] * op(kern, ColoredOf(i).r_I)
                            * ColoredOf(i).J_I[b]], ValidObs)
       /\ \A k \in 0..5 :
             global_sum[21 + k] =
               SumFn([i \in ValidObs |->
                        ColoredOf(i).J_G[k] * op(kern, ColoredOf(i).r_G)
                            * ColoredOf(i).r_G
                        + ColoredOf(i).J_I[k] * op(kern, ColoredOf(i).r_I)
                            * ColoredOf(i).r_I], ValidObs)
       /\ global_sum[27] =
             SumFn([i \in ValidObs |->
                      ColoredOf(i).r_G * ColoredOf(i).r_G
                      + ColoredOf(i).r_I * ColoredOf(i).r_I], ValidObs)

\* A finished colored-ICP reduction with a valid observation whose two
\* residuals get different weights and whose photometric Jacobian and
\* residual are not zero.
C16_Witness ==
    /\ kind = "ColoredICP"
    /\ phase = "done"
    /\ \E i \in ValidObs :
          /\ op(kern, ColoredOf(i).r_G) # op(kern, ColoredOf(i).r_I)
          /\ ColoredOf(i).r_I # 0
          /\ ColoredOf(i).r_G # 0
          /\ \E k \in 0..5 : ColoredOf(i).J_I[k] # 0 /\ ColoredOf(i).J_G[k] # 0
    /\ global_sum[27] > 0

\* --------------------------------- Get3x3SxyLinearSystem: the properties

\* The source indices whose correspondence is not the sentinel -1.
PairObs == {i \in 0..(n - 1) : correspondence_indices[i] # -1}

PairCount == Cardinality(PairObs)

\* Coordinate sums of the paired source points and of their target points.
SourceSum(j) ==
    SumFn([i \in PairObs |-> source_points_ptr[3 * i + j]], PairObs)

TargetSum(k) ==
    SumFn([i \in PairObs |->
             target_points_ptr[3 * correspondence_indices[i] + k]], PairObs)

\* Two values are the same number.
SameNumber(p, q) ==
    /\ IsNumber(p)
    /\ IsNumber(q)
    /\ p.num * q.den = q.num * p.den

\* PairCount^2 times the sum over the pairs of
\* (source_i[a] - mean_source[a]) * (target_i[b] - mean_target[b]).
CrossSum(a, b) ==
    SumFn([i \in PairObs |->
             (PairCount * source_points_ptr[3 * i + a] - SourceSum(a)) *
             (PairCount * target_points_ptr[3 * correspondence_indices[i] + b]
                - TargetSum(b))], PairObs)

PointToPointDone == kind = "PointToPoint" /\ phase = "done"

\* C11 as stated: the returned Sxy has at (row j, column k) the sum over the
\* valid pairs of (source_i[j] - mean_source[j]) * (target_i[k] -
\* mean_target[k]).
C11_SourceTimesTarget ==
    PointToPointDone /\ PairCount > 0
    => \A j, k \in 0..2 :
         SameNumber(Sxy[j][k],
                    [num |-> CrossSum(j, k), den |-> PairCount * PairCount])

\* C11 amended: the returned Sxy has at (row j, column k) the sum over the
\* valid pairs of (target_i[j] - mean_target[j]) * (source_i[k] -
\* mean_source[k]) divided by the number of valid pairs: the covariance of
\* target against source, the transpose of the stated matrix scaled by
\* 1 / count.
C11_TargetTimesSourceOverCount ==
    PointToPointDone /\ PairCount > 0
    => \A j, k \in 0..2 :
         SameNumber(Sxy[j][k],
                    [num |-> CrossSum(k, j),
                     den |-> PairCount * PairCount * PairCount])

\* Two valid pairs with an asymmetric cross-covariance were reduced.
C11_Witness ==
    /\ PointToPointDone
    /\ PairCount = 2
    /\ \E j, k \in 0..2 : CrossSum(j, k) # CrossSum(k, j)
    /\ \E j, k \in 0..2 : IsNumber(Sxy[j][k]) /\ Sxy[j][k].num # 0

\* C12: the first pass accumulates, over exactly the source indices whose
\* correspondence is not -1, the 3 source sums, the 3 sums of the
\* corresponding target points and the count; the means the second pass
\* reads and the means reported are these sums divided by the count; the
\* reported inlier_count is the number of non-sentinel correspondences.
C12_MeansAndCount ==
    kind = "PointToPoint"
    => /\ phase = "divide"
          => /\ \A j \in 0..2 : result[j] = SourceSum(j)
             /\ \A k \in 0..2 : result[3 + k] = TargetSum(k)
             /\ result[6] = PairCount
       /\ pass = 2
          => /\ \A j \in 0..2 : mean_1x7[j] = Quot(SourceSum(j), PairCount)
             /\ \A k \in 0..2 :
                   mean_1x7[3 + k] = Quot(TargetSum(k), PairCount)
             /\ mean_1x7[6] = PairCount
       /\ phase = "done"
          => /\ \A j \in 0..2 : mean_s[j] = Quot(SourceSum(j), PairCount)
             /\ \A k \in 0..2 : mean_t[k] = Quot(TargetSum(k), PairCount)
             /\ inlier_count = PairCount

\* A finished call that paired one source point and skipped a sentinel.
C12_Witness ==
    /\ PointToPointDone
    /\ inlier_count >= 1
    /\ inlier_count < n
    /\ \E j \in 0..2 : IsNumber(mean_s[j]) /\ mean_s[j].num # 0
    /\ \E k \in 0..2 : IsNumber(mean_t[k]) /\ mean_t[k].num # 0

\* C15: with zero valid correspondences (all -1, or n = 0) the call reports
\* inlier_count = 0 and every mean and every entry of Sxy is a well-defined
\* number: nothing is divided by a zero count.
C15_ZeroInliersDefined ==
    PointToPointDone /\ PairCount = 0
    => /\ inlier_count = 0
       /\ \A j \in 0..2 : IsNumber(mean_s[j]) /\ IsNumber(mean_t[j])
       /\ \A j, k \in 0..2 : IsNumber(Sxy[j][k])

\* C28: Get3x3SxyLinearSystem is strictly two-pass.  The second reduction
\* starts (pass 1 -> 2) only when every index was processed once by the first,
\* every partial of the first was merged into the returned sums, and in that
\* step the six sums are divided by the count while no second-pass iteration
\* has run; during the first pass no accumulator is a 9-entry one; and once
\* the second pass runs no step changes the means, so every second-pass
\* worker reads the same final means.
C28_StrictlyTwoPass ==
    [][kind = "PointToPoint" =>
          /\ pass = 1 => \A w \in Workers : DOMAIN acc[w] = 0..6
          /\ (pass = 1 /\ pass' = 2) =>
                /\ \A i \in 0..(n - 1) : hits[i] = 1
                /\ \A i, j \in 0..(n - 1) : holder[i] = holder[j]
                /\ \A v, w \in Workers : pc[v] # "joined" /\ pc[w] # "joined"
                                            => v = w
                /\ result = SeqMeans(n)
                /\ \A j \in 0..5 :
                      mean_1x7'[j] = Quot(SeqMeans(n)[j], SeqMeans(n)[6])
                /\ \A i \in 0..(n - 1) : hits'[i] = 0
                /\ \A w \in Workers : pc'[w] = "idle" /\ acc'[w] = Zeros(9)
          /\ pass = 2 => pass' = 2 /\ mean_1x7' = mean_1x7
      ]_vars

\* The second pass is running on two valid pairs: one worker has stored its
\* contribution, the other is inside its iteration, and the means they read
\* are the divided sums.
C28_Witness ==
    /\ kind = "PointToPoint"
    /\ pass = 2
    /\ phase = "reduce"
    /\ PairCount = 2
    /\ \E v, w \in Workers :
          /\ pc[v] = "loaded"
          /\ acc[w] # Zeros(9)
    /\ \E j \in 0..5 : mean_1x7[j].num # 0

\* ------------------------------------------------------------- ProjectCPU

\* Number of points projected by one call (one worker per point).
NumPoints == 2

PointIds == 0..(NumPoints - 1)

\* The image is one row of two pixels.
Pixels == {0, 1}

\* depth_max of the call.
depth_max == 2

\* What RigidTransform and Project hand the kernel for one point: the image
\* column u (-1: left of the image; the row v is 0), the camera depth zc, and
\* the point's color (float channels 0 or 1).
Red == <<1, 0, 0>>
Blue == <<0, 0, 1>>

PointChoices ==
    {[u |-> 0, zc |-> 1, color |-> Red],
     [u |-> 0, zc |-> 1, color |-> Blue],
     [u |-> 0, zc |-> depth_max, color |-> Red],
     [u |-> 1, zc |-> 1, color |-> Blue],
     [u |-> 1, zc |-> depth_max, color |-> Red],
     [u |-> -1, zc |-> 1, color |-> Red],
     [u |-> 0, zc |-> 0, color |-> Red],
     [u |-> 0, zc |-> depth_max + 1, color |-> Blue]}

\* depth_indexer.InBoundary(u, v) for the one-row image.
InBoundary(u) == u >= 0 /\ u <= 1

\* Faulty variant: the early return without the test against depth_max.
RejectedKeepsFar(pt) == ~InBoundary(pt.u) \/ pt.zc <= 0

\* The early return of the kernel: the point is outside the image or its
\* depth is outside (0, depth_max].
Rejected(pt) == ~InBoundary(pt.u) \/ pt.zc <= 0 \/ pt.zc > depth_max

\* float d = zc * depth_scale
DepthOf(pt) == pt.zc * depth_scale

\* static_cast<uint8_t>(c * 255.0) per channel
ToUint8(c) == <<c[1] * 255, c[2] * 255, c[3] * 255>>

\* The compare with the inequality reversed.
OverwritesFarther(stored, d) == stored = 0 \/ stored <= d

\* The compare of the critical section: overwrite if the stored depth is
\* zero or not closer than d.
Overwrites(stored, d) == stored = 0 \/ stored >= d

\* A critical section that excludes nobody.
CriticalAlwaysFree == TRUE

\* Whether the critical section may be entered.
CriticalFree == critical = Nobody

InitProject ==
    /\ points \in [PointIds -> PointChoices]
    /\ has_colors \in BOOLEAN
    /\ depth_scale \in {1, 2}
    /\ depth \in {[q \in Pixels |-> 0], [q \in Pixels |-> IF q = 0 THEN 3 ELSE 0]}
    /\ depth_before = depth
    /\ writers = [q \in Pixels |-> {}]
    /\ image_colors = [q \in Pixels |-> <<0, 0, 0>>]
    /\ ppc = [p \in PointIds |-> "start"]
    /\ critical = Nobody
    /\ ReduceIdle
    /\ RtIdle
    /\ EstimateIdle
    /\ SolveIdle
    /\ DetIdle
    /\ IndexIdle
    /\ GradientIdle
    /\ SvdIdle

\* Lines 2421-2438 for a point that passes the boundary and depth tests.
ProjectAccept(p) ==
    /\ ppc[p] = "start"
    /\ ~Rejected(points[p])
    /\ ppc' = [ppc EXCEPT ![p] = "wait"]
    /\ UNCHANGED <<points, has_colors, depth_scale, depth, depth_before,
                   writers, image_colors, critical>>
    /\ UNCHANGED nonProject

\* Lines 2431-2434: the early return.
ProjectReject(p) ==
    /\ ppc[p] = "start"
    /\ Rejected(points[p])
    /\ ppc' = [ppc EXCEPT ![p] = "done"]
    /\ UNCHANGED <<points, has_colors, depth_scale, depth, depth_before,
                   writers, image_colors, critical>>
    /\ UNCHANGED nonProject

\* #pragma omp critical: entry.
Enter(p) ==
    /\ ppc[p] = "wait"
    /\ CriticalFree
    /\ critical' = p
    /\ ppc' = [ppc EXCEPT ![p] = "test"]
    /\ UNCHANGED <<points, has_colors, depth_scale, depth, depth_before,
                   writers, image_colors>>
    /\ UNCHANGED nonProject

\* if (*depth_ptr == 0 || *depth_ptr >= d)
Test(p) ==
    /\ ppc[p] = "test"
    /\ ppc' = [ppc EXCEPT ![p] =
                  IF Overwrites(depth[points[p].u], DepthOf(points[p]))
                  THEN "write_depth" ELSE "leave"]
    /\ UNCHANGED <<points, has_colors, depth_scale, depth, depth_before,
                   writers, image_colors, critical>>
    /\ UNCHANGED nonProject

\* *depth_ptr = d
WriteDepth(p) ==
    /\ ppc[p] = "write_depth"
    /\ depth' = [depth EXCEPT ![points[p].u] = DepthOf(points[p])]
    /\ writers' = [writers EXCEPT ![points[p].u] = @ \cup {p}]
    /\ ppc' = [ppc EXCEPT ![p] = IF has_colors THEN "write_color" ELSE "leave"]
    /\ UNCHANGED <<points, has_colors, depth_scale, depth_before,
                   image_colors, critical>>
    /\ UNCHANGED nonProject

\* color_ptr[0..2] = static_cast<uint8_t>(point color * 255.0)
WriteColor(p) ==
    /\ ppc[p] = "write_color"
    /\ image_colors' =
          [image_colors EXCEPT ![points[p].u] = ToUint8(points[p].color)]
    /\ ppc' = [ppc EXCEPT ![p] = "leave"]
    /\ UNCHANGED <<points, has_colors, depth_scale, depth, depth_before,
                   writers, critical>>
    /\ UNCHANGED nonProject

\* The end of the critical section and of the kernel for point p.
Leave(p) ==
    /\ ppc[p] = "leave"
    /\ critical' = IF critical = p THEN Nobody ELSE critical
    /\ ppc' = [ppc EXCEPT ![p] = "done"]
    /\ UNCHANGED <<points, has_colors, depth_scale, depth, depth_before,
                   writers, image_colors>>
    /\ UNCHANGED nonProject

NextProject ==
    \/ \E p \in PointIds : ProjectAccept(p)
    \/ \E p \in PointIds : ProjectReject(p)
    \/ \E p \in PointIds : Enter(p)
    \/ \E p \in PointIds : Test(p)
    \/ \E p \in PointIds : WriteDepth(p)
    \/ \E p \in PointIds : WriteColor(p)
    \/ \E p \in PointIds : Leave(p)

SpecProject == InitProject /\ [][NextProject]_vars

\* ------------------------------------------- ProjectCPU: properties

AllDone == \A p \in PointIds : ppc[p] = "done"

\* The points that project inside the image onto pixel q with a depth in
\* (0, depth_max].
Covering(q) ==
    {p \in PointIds : /\ points[p].u = q
                      /\ points[p].zc > 0
                      /\ points[p].zc <= depth_max}

MinOf(D) == CHOOSE x \in D : \A y \in D : x <= y

\* Between the read of *depth_ptr and the last color write.
InCritical(p) == ppc[p] \in {"test", "write_depth", "write_color"}

\* The images a sequential run over the points 0..k-1, in index order,
\* leaves.
RECURSIVE SeqProject(_)
SeqProject(k) ==
    IF k = 0
    THEN [depth |-> depth_before,
          colors |-> [q \in Pixels |-> <<0, 0, 0>>]]
    ELSE LET prev == SeqProject(k - 1)
             pt == points[k - 1]
         IN  IF Rejected(pt) \/ ~Overwrites(prev.depth[pt.u], DepthOf(pt))
             THEN prev
             ELSE [depth |-> [prev.depth EXCEPT ![pt.u] = DepthOf(pt)],
                   colors |-> IF has_colors
                              THEN [prev.colors EXCEPT
                                        ![pt.u] = ToUint8(pt.color)]
                              ELSE prev.colors]

\* C7: closest wins. Once every point worker has finished, a pixel whose
\* depth was 0 before the call holds the minimum of d = zc * depth_scale
\* over the points that project onto it inside the image with
\* 0 < zc <= depth_max, and stays 0 when there is no such point; and a
\* worker about to overwrite the stored depth finds it 0 or >= its own d.
C7_ClosestWins ==
    /\ AllDone =>
          \A q \in Pixels :
              depth_before[q] = 0 =>
                  depth[q] = IF Covering(q) = {} THEN 0
                             ELSE MinOf({points[p].zc * depth_scale :
                                           p \in Covering(q)})
    /\ \A p \in PointIds :
          ppc[p] = "write_depth" =>
              \/ depth[points[p].u] = 0
              \/ depth[points[p].u] >= points[p].zc * depth_scale

\* Two points of different depth cover one pixel that was 0 before the call,
\* and all workers have finished.
C7_Witness ==
    /\ AllDone
    /\ \E q \in Pixels :
          /\ depth_before[q] = 0
          /\ \E p1, p2 \in Covering(q) :
                /\ p1 < p2
                /\ points[p1].zc < points[p2].zc
                /\ depth[q] = points[p1].zc * depth_scale

\* C8: determinism. Once every point worker has finished, the depth image
\* and the color image are those of the sequential run in index order,
\* whatever the scheduling order of the workers was.
C8_Deterministic ==
    AllDone =>
        /\ depth = SeqProject(NumPoints).depth
        /\ image_colors = SeqProject(NumPoints).colors

\* C9: the read of the stored depth, the compare, the depth write and the
\* color write of one point form one critical section: at most one worker is
\* between its read of *depth_ptr and its last color write, and that worker
\* owns the critical section.
C9_MutualExclusion ==
    /\ Cardinality({p \in PointIds : InCritical(p)}) <= 1
    /\ \A p \in PointIds : InCritical(p) => critical = p

\* One worker is about to write its color after its compare, while another
\* worker for the same pixel waits at the critical section.
C9_Witness ==
    \E p1, p2 \in PointIds :
        /\ ppc[p1] = "write_color"
        /\ ppc[p2] = "wait"
        /\ points[p1].u = points[p2].u

\* C30: depth and color stay consistent and nothing else is touched. In
\* every state in which no worker is inside the critical section: a pixel
\* whose depth the call wrote holds the d of a point that projects onto it
\* and, when colors are projected, the color of a point with that d; a pixel
\* the call did not write keeps its depth and its color; and a point that
\* projects outside the image, or has zc <= 0 or zc > depth_max, wrote no
\* pixel and never entered the critical section.
C30_DepthColorConsistent ==
    /\ (\A p \in PointIds : ~InCritical(p)) =>
          \A q \in Pixels :
              IF writers[q] # {}
              THEN \E p \in PointIds :
                      /\ points[p].u = q
                      /\ depth[q] = points[p].zc * depth_scale
                      /\ has_colors =>
                            image_colors[q] = <<points[p].color[1] * 255,
                                                points[p].color[2] * 255,
                                                points[p].color[3] * 255>>
              ELSE /\ depth[q] = depth_before[q]
                   /\ image_colors[q] = <<0, 0, 0>>
    /\ ~has_colors => \A q \in Pixels : image_colors[q] = <<0, 0, 0>>
    /\ \A p \in PointIds :
          (\/ points[p].u \notin Pixels
           \/ points[p].zc <= 0
           \/ points[p].zc > depth_max)
          => /\ \A q \in Pixels : p \notin writers[q]
             /\ ppc[p] \in {"start", "done"}

\* Every worker has finished with colors projected: one point wrote the
\* depth and the color of its pixel, and a point beyond depth_max wrote
\* nothing.
C30_Witness ==
    /\ AllDone
    /\ has_colors
    /\ \E q \in Pixels :
          /\ writers[q] # {}
          /\ depth[q] # depth_before[q]
          /\ image_colors[q] # <<0, 0, 0>>
    /\ \E p \in PointIds :
          /\ points[p].zc > depth_max
          /\ \A q \in Pixels : p \notin writers[q]

\* ------------------------------------------------ ComputeRtPointToPointCPU

\* 3x3 matrices are functions over 0..2 x 0..2. The entries of U and VT are
\* carried as integer numerators over the common denominator Den, so that
\* orthogonal matrices with fractional entries are exact; a product of two
\* such matrices has its numerators over Den * Den.
Den == 3

Idx == 0..2

Mat(rows) == [i \in Idx |-> [j \in Idx |-> rows[i + 1][j + 1]]]

\* core::Tensor::Eye(3)
Eye3 == Mat(<<<<1, 0, 0>>, <<0, 1, 0>>, <<0, 0, 1>>>>)

\* Tensor::Matmul
Matmul(A, B) ==
    [i \in Idx |-> [j \in Idx |->
        A[i][0] * B[0][j] + A[i][1] * B[1][j] + A[i][2] * B[2][j]]]

\* Tensor::T
Transpose(A) == [i \in Idx |-> [j \in Idx |-> A[j][i]]]

\* Tensor::Det
Det(A) ==
      A[0][0] * (A[1][1] * A[2][2] - A[1][2] * A[2][1])
    - A[0][1] * (A[1][0] * A[2][2] - A[1][2] * A[2][0])
    + A[0][2] * (A[1][0] * A[2][1] - A[1][1] * A[2][0])

\* The signed permutation matrices.
SignedPermutations ==
    {[i \in Idx |-> [j \in Idx |-> IF p[i] = j THEN s[i] ELSE 0]] :
        p \in {f \in [Idx -> Idx] : \A a, b \in Idx : f[a] = f[b] => a = b},
        s \in [Idx -> {-1, 1}]}

\* Numerators of two orthogonal matrices: the identity, and the reflection
\* (1/3) * [1 2 2; 2 1 -2; 2 -2 1].
OrthogonalSeeds ==
    {Mat(<<<<Den, 0, 0>>, <<0, Den, 0>>, <<0, 0, Den>>>>),
     Mat(<<<<1, 2, 2>>, <<2, 1, -2>>, <<2, -2, 1>>>>)}

\* The factors Sxy.SVD() can return: numerators of orthogonal matrices of
\* either handedness.
Orthogonal ==
    {Matmul(P, B) : P \in SignedPermutations, B \in OrthogonalSeeds}

\* A sign matrix that is never corrected.
SignMatrixUncorrected(u, vt) == Eye3

\* S = Eye(3); if (U.Det() * (VT.T()).Det() < 0) S[-1][-1] = -1
SignMatrix(u, vt) ==
    IF Det(u) * Det(Transpose(vt)) < 0
    THEN [Eye3 EXCEPT ![2] = [Eye3[2] EXCEPT ![2] = -1]]
    ELSE Eye3

\* Exact arithmetic on fractions.
FracAdd(p, q) == [num |-> p.num * q.den + q.num * p.den, den |-> p.den * q.den]
FracSub(p, q) == [num |-> p.num * q.den - q.num * p.den, den |-> p.den * q.den]
FracMul(p, q) == [num |-> p.num * q.num, den |-> p.den * q.den]

\* Entry (i, j) of the rotation as a fraction: its numerator over Den * Den.
REntry(i, j) == [num |-> R[i][j], den |-> Den * Den]

\* Faulty variant: the translation of the comment above the output loop,
\* mean_s - R * mean_t.
TranslationSwapped(ms, mt) ==
    [i \in Idx |->
       FracSub(ms[i],
               FracAdd(FracAdd(FracMul(REntry(i, 0), mt[0]),
                               FracMul(REntry(i, 1), mt[1])),
                       FracMul(REntry(i, 2), mt[2])))]

\* t = mean_t.Reshape({-1}) - R.Matmul(mean_s.T()).Reshape({-1})
Translation(ms, mt) ==
    [i \in Idx |->
       FracSub(mt[i],
               FracAdd(FracAdd(FracMul(REntry(i, 0), ms[0]),
                               FracMul(REntry(i, 1), ms[1])),
                       FracMul(REntry(i, 2), ms[2])))]

\* The correspondences of the calls whose rotation is recovered: two source
\* points, at least one of them paired.  (The SVD of the NaN matrix a call
\* without a pair produces is outside this model.)
RtCorrespondences ==
    {c \in [0..1 -> {-1} \cup Targets] : \E i \in 0..1 : c[i] # -1}

\* The state in which Get3x3SxyLinearSystem returns to
\* ComputeRtPointToPointCPU: both reductions are over and the outputs are
\* written.
InitRt ==
    /\ kind = "PointToPoint"
    /\ kern = "L2"
    /\ correspondence_indices \in RtCorrespondences
    /\ n = Cardinality(DOMAIN correspondence_indices)
    /\ next = n
    /\ pc = <<>>
    /\ cur = <<>>
    /\ tmp = <<>>
    /\ acc = <<>>
    /\ hits = <<>>
    /\ holder = <<>>
    /\ pass = 2
    /\ mean_1x7 = DivideMeans(SeqMeans(n))
    /\ result = SeqFold(n)
    /\ global_sum = <<>>
    /\ phase = "done"
    /\ Sxy = OutputsOf(result, mean_1x7).Sxy
    /\ mean_s = OutputsOf(result, mean_1x7).mean_s
    /\ mean_t = OutputsOf(result, mean_1x7).mean_t
    /\ inlier_count = OutputsOf(result, mean_1x7).inlier_count
    /\ U = <<>>
    /\ VT = <<>>
    /\ S = <<>>
    /\ R = <<>>
    /\ t = <<>>
    /\ rtpc = "svd"
    /\ ProjectIdle
    /\ EstimateIdle
    /\ SolveIdle
    /\ DetIdle
    /\ IndexIdle
    /\ GradientIdle
    /\ SvdIdle

\* std::tie(U, D, VT) = Sxy.SVD()
SVD ==
    /\ rtpc = "svd"
    /\ U' \in Orthogonal
    /\ VT' \in Orthogonal
    /\ rtpc' = "sign"
    /\ UNCHANGED <<S, R, t>>
    /\ UNCHANGED nonRt

\* The sign correction.
SignCorrect ==
    /\ rtpc = "sign"
    /\ S' = SignMatrix(U, VT)
    /\ rtpc' = "rotate"
    /\ UNCHANGED <<U, VT, R, t>>
    /\ UNCHANGED nonRt

\* R = U.Matmul(S.Matmul(VT))
Rotate ==
    /\ rtpc = "rotate"
    /\ R' = Matmul(U, Matmul(S, VT))
    /\ rtpc' = "translate"
    /\ UNCHANGED <<U, VT, S, t>>
    /\ UNCHANGED nonRt

\* t = (mean_t - R * mean_s)
Translate ==
    /\ rtpc = "translate"
    /\ t' = Translation(mean_s, mean_t)
    /\ rtpc' = "done"
    /\ UNCHANGED <<U, VT, S, R>>
    /\ UNCHANGED nonRt

NextRt ==
    \/ SVD
    \/ SignCorrect
    \/ Rotate
    \/ Translate

SpecRt == InitRt /\ [][NextRt]_vars

\* ------------------------------------ ComputeRtPointToPointCPU: properties

\* A matrix of numerators over the denominator d is orthogonal.
IsOrthogonalOver(A, d) ==
    Matmul(A, Transpose(A)) =
        [i \in Idx |-> [j \in Idx |-> IF i = j THEN d * d ELSE 0]]

\* C10: for every SVD result with orthogonal U and V (determinant +1 or -1
\* each), the sign-corrected R = U * diag(1, 1, s) * VT has determinant +1
\* and is orthogonal: a rotation, never a reflection. (The numerators of R
\* are over Den * Den, so determinant +1 reads Det(R) = (Den * Den)^3.)
C10_ProperRotation ==
    /\ rtpc \in {"sign", "rotate"} =>
          /\ IsOrthogonalOver(U, Den) /\ IsOrthogonalOver(VT, Den)
          /\ Det(U) \in {Den * Den * Den, -(Den * Den * Den)}
          /\ Det(VT) \in {Den * Den * Den, -(Den * Den * Den)}
    /\ rtpc \in {"translate", "done"} /\ R # <<>> =>
          /\ S[2][2] = (IF Det(U) * Det(VT) < 0 THEN -1 ELSE 1)
          /\ Det(R) = (Den * Den) * (Den * Den) * (Den * Den)
          /\ IsOrthogonalOver(R, Den * Den)

\* A rotation was computed from factors of opposite handedness, none of
\* them a signed permutation: the correction acted.
C10_Witness ==
    /\ rtpc = "done"
    /\ R # <<>>
    /\ Det(U) > 0
    /\ Det(VT) < 0
    /\ U[0][0] = 1
    /\ VT[0][0] = 2
    /\ S[2][2] = -1

NumEstPoints == 2

\* Largest neighbour count the search reports (max_nn).
MaxCount == 5

\* Content of an output entry the call has not written.
Stale == 7

\* Gradients solve_svd3x3 can hand back for a point, and covariances the
\* covariance kernel can write for a point (9 entries, row-major).
SolverResults == {<<0, 0, 0>>, <<1, -2, 3>>}
KernelResults == {<<2, 1, 0, 1, 2, 0, 0, 0, 3>>, <<1, 0, 0, 0, 1, 0, 0, 0, 1>>}

\* Faulty variant: the gradient is solved from 3 neighbours on.
GradientNeedsSolveFrom3(neighbour_count) == neighbour_count >= 3

\* if (neighbour_count >= 4)
GradientNeedsSolve(neighbour_count) == neighbour_count >= 4

\* Faulty variant: the covariance threshold is that of the gradient.
CovarianceNeedsKernelFrom4(neighbour_count) == neighbour_count >= 4

\* if (neighbour_count >= 3)
CovarianceNeedsKernel(neighbour_count) == neighbour_count >= 3

\* int64_t point_idx = 3 * workload_idx
point_idx(workload_idx) == 3 * workload_idx

\* int64_t covariances_offset = 9 * workload_idx
covariances_offset(workload_idx) == 9 * workload_idx

\* The array out with the entries of tuple v written from offset off on.
WriteAt(out, off, v) ==
    [o \in DOMAIN out |->
        IF o >= off /\ o < off + Len(v) THEN v[o - off + 1] ELSE out[o]]

\* The write history after worker i wrote len entries from offset off on.
LogWrites(log, off, len, i) ==
    [o \in DOMAIN log |->
        IF o >= off /\ o < off + len THEN Append(log[o], i) ELSE log[o]]

\* Faulty variant: LogError only logs and the call goes on.
AfterLogErrorContinues == "search"

\* utility::LogError does not return: the call ends with the error.
AfterLogError == "fatal"

InitEstimate ==
    /\ estimate \in {"ColorGradient", "Covariance"}
    /\ est_n \in 0..NumEstPoints
    /\ check \in BOOLEAN
    /\ index_calls = 0
    /\ search_calls = 0
    /\ estage = "index"
    /\ neighbour_counts_ptr = <<>>
    /\ color_gradients_ptr =
          IF estimate = "ColorGradient"
          THEN [o \in 0..(3 * est_n - 1) |-> Stale] ELSE <<>>
    /\ covariances_ptr =
          IF estimate = "Covariance"
          THEN [o \in 0..(9 * est_n - 1) |-> Stale] ELSE <<>>
    /\ out_writes =
          IF estimate = "ColorGradient"
          THEN [o \in 0..(3 * est_n - 1) |-> <<>>]
          ELSE [o \in 0..(9 * est_n - 1) |-> <<>>]
    /\ solver_calls = [i \in 0..(est_n - 1) |-> 0]
    /\ epc = [i \in 0..(est_n - 1) |-> "todo"]
    /\ ReduceIdle
    /\ ProjectIdle
    /\ RtIdle
    /\ SolveIdle
    /\ DetIdle
    /\ IndexIdle
    /\ GradientIdle
    /\ SvdIdle

\* bool check = tree.HybridIndex(radius); if (!check) utility::LogError(...)
BuildIndex ==
    /\ estage = "index"
    /\ index_calls' = index_calls + 1
    /\ estage' = IF check THEN "search" ELSE AfterLogError
    /\ UNCHANGED <<estimate, est_n, check, search_calls, neighbour_counts_ptr,
                   color_gradients_ptr, covariances_ptr, out_writes,
                   solver_calls, epc>>
    /\ UNCHANGED nonEstimate

\* tree.HybridSearch(points, radius, max_nn) hands back the counts.
HybridSearch ==
    /\ estage = "search"
    /\ search_calls' = search_calls + 1
    /\ neighbour_counts_ptr' \in [0..(est_n - 1) -> 0..MaxCount]
    /\ estage' = "loop"
    /\ UNCHANGED <<estimate, est_n, check, index_calls, color_gradients_ptr,
                   covariances_ptr, out_writes, solver_calls, epc>>
    /\ UNCHANGED nonEstimate

\* The iteration of a point with at least 4 neighbours: the normal equations
\* are built and solve_svd3x3 writes the three entries of the point.
GradientSolve(i) ==
    /\ estimate = "ColorGradient"
    /\ estage = "loop"
    /\ epc[i] = "todo"
    /\ GradientNeedsSolve(neighbour_counts_ptr[i])
    /\ \E x \in SolverResults :
          color_gradients_ptr' = WriteAt(color_gradients_ptr, point_idx(i), x)
    /\ out_writes' = LogWrites(out_writes, point_idx(i), 3, i)
    /\ solver_calls' = [solver_calls EXCEPT ![i] = @ + 1]
    /\ epc' = [epc EXCEPT ![i] = "done"]
    /\ UNCHANGED <<estimate, est_n, neighbour_counts_ptr, covariances_ptr>>
    /\ UNCHANGED hvars
    /\ UNCHANGED nonEstimate

\* The else branch: the gradient of the point is zero.
GradientZero(i) ==
    /\ estimate = "ColorGradient"
    /\ estage = "loop"
    /\ epc[i] = "todo"
    /\ ~GradientNeedsSolve(neighbour_counts_ptr[i])
    /\ color_gradients_ptr' =
          WriteAt(color_gradients_ptr, point_idx(i), <<0, 0, 0>>)
    /\ out_writes' = LogWrites(out_writes, point_idx(i), 3, i)
    /\ epc' = [epc EXCEPT ![i] = "done"]
    /\ UNCHANGED <<estimate, est_n, neighbour_counts_ptr, covariances_ptr,
                   solver_calls>>
    /\ UNCHANGED hvars
    /\ UNCHANGED nonEstimate

\* The iteration of a point with at least 3 neighbours:
\* EstimatePointWiseCovarianceKernel writes the 9 entries from
\* covariances_offset on.
CovarianceKernel(i) ==
    /\ estimate = "Covariance"
    /\ estage = "loop"
    /\ epc[i] = "todo"
    /\ CovarianceNeedsKernel(neighbour_counts_ptr[i])
    /\ \E c \in KernelResults :
          covariances_ptr' = WriteAt(covariances_ptr, covariances_offset(i), c)
    /\ out_writes' = LogWrites(out_writes, covariances_offset(i), 9, i)
    /\ solver_calls' = [solver_calls EXCEPT ![i] = @ + 1]
    /\ epc' = [epc EXCEPT ![i] = "done"]
    /\ UNCHANGED <<estimate, est_n, neighbour_counts_ptr, color_gradients_ptr>>
    /\ UNCHANGED hvars
    /\ UNCHANGED nonEstimate

\* The else branch: the covariance of the point is the identity.
CovarianceIdentity(i) ==
    /\ estimate = "Covariance"
    /\ estage = "loop"
    /\ epc[i] = "todo"
    /\ ~CovarianceNeedsKernel(neighbour_counts_ptr[i])
    /\ covariances_ptr' =
          WriteAt(covariances_ptr, covariances_offset(i),
                  <<1, 0, 0, 0, 1, 0, 0, 0, 1>>)
    /\ out_writes' = LogWrites(out_writes, covariances_offset(i), 9, i)
    /\ epc' = [epc EXCEPT ![i] = "done"]
    /\ UNCHANGED <<estimate, est_n, neighbour_counts_ptr, color_gradients_ptr,
                   solver_calls>>
    /\ UNCHANGED hvars
    /\ UNCHANGED nonEstimate

NextEstimate ==
    \/ BuildIndex
    \/ HybridSearch
    \/ \E i \in 0..(est_n - 1) : GradientSolve(i)
    \/ \E i \in 0..(est_n - 1) : GradientZero(i)
    \/ \E i \in 0..(est_n - 1) : CovarianceKernel(i)
    \/ \E i \in 0..(est_n - 1) : CovarianceIdentity(i)

SpecEstimate == InitEstimate /\ [][NextEstimate]_vars

\* ----------------------------------------------- estimation: properties

\* C17: EstimatePointWiseColorGradientCPU writes the gradient (0, 0, 0) for
\* every point whose neighbour count is below 4, without calling the 3x3
\* solver, and calls the solver once for every point whose count is at
\* least 4; the 3 output entries of a point are written exactly once, by
\* the iteration of that point, and not before it.
C17_GradientFallback ==
    estimate = "ColorGradient"
    => \A i \in 0..(est_n - 1) :
         /\ epc[i] = "todo"
            => /\ solver_calls[i] = 0
               /\ \A c \in 0..2 : out_writes[3 * i + c] = <<>>
         /\ epc[i] = "done"
            => /\ \A c \in 0..2 : out_writes[3 * i + c] = <<i>>
               /\ neighbour_counts_ptr[i] < 4
                  => /\ solver_calls[i] = 0
                     /\ \A c \in 0..2 : color_gradients_ptr[3 * i + c] = 0
               /\ neighbour_counts_ptr[i] >= 4 => solver_calls[i] = 1

\* A finished gradient estimation with one point of 3 neighbours and one
\* point of 4 neighbours.
C17_Witness ==
    /\ estimate = "ColorGradient"
    /\ est_n >= 2
    /\ \A i \in 0..(est_n - 1) : epc[i] = "done"
    /\ \E i, k \in 0..(est_n - 1) :
          /\ neighbour_counts_ptr[i] = 3
          /\ neighbour_counts_ptr[k] = 4
          /\ color_gradients_ptr[3 * k] # 0

\* C18: EstimatePointWiseCovarianceCPU writes the 3x3 identity, 9 entries
\* from offset 9 * index on, for every point whose neighbour count is below
\* 3, and hands every point whose count is at least 3 to the covariance
\* kernel; the 9 output entries of a point are written by the iteration of
\* that point and by no other, and none is left unwritten.
C18_CovarianceFallback ==
    estimate = "Covariance"
    => \A i \in 0..(est_n - 1) :
         /\ epc[i] = "todo"
            => /\ solver_calls[i] = 0
               /\ \A c \in 0..8 : out_writes[9 * i + c] = <<>>
         /\ epc[i] = "done"
            => /\ \A c \in 0..8 : out_writes[9 * i + c] = <<i>>
               /\ neighbour_counts_ptr[i] < 3
                  => /\ solver_calls[i] = 0
                     /\ \A r, c \in 0..2 :
                           covariances_ptr[9 * i + 3 * r + c] =
                               (IF r = c THEN 1 ELSE 0)
               /\ neighbour_counts_ptr[i] >= 3 => solver_calls[i] = 1

\* A finished covariance estimation with one point of 2 neighbours and one
\* point of 3 neighbours.
C18_Witness ==
    /\ estimate = "Covariance"
    /\ est_n >= 2
    /\ \A i \in 0..(est_n - 1) : epc[i] = "done"
    /\ \E i, k \in 0..(est_n - 1) :
          /\ neighbour_counts_ptr[i] = 2
          /\ neighbour_counts_ptr[k] = 3
          /\ covariances_ptr[9 * k] = 2

\* C23: when building the neighbour-search index fails (HybridIndex returns
\* false), the call ends with a fatal error before the neighbour search runs
\* and before any entry of the output tensor is written, and the index is
\* not built a second time.
C23_IndexFailureIsFatal ==
    /\ index_calls <= 1
    /\ (estage # "index" /\ ~check) =>
          /\ estage = "fatal"
          /\ search_calls = 0
          /\ \A o \in DOMAIN out_writes : out_writes[o] = <<>>
          /\ \A o \in DOMAIN color_gradients_ptr :
                color_gradients_ptr[o] = Stale
          /\ \A o \in DOMAIN covariances_ptr : covariances_ptr[o] = Stale
          /\ \A i \in 0..(est_n - 1) : epc[i] = "todo" /\ solver_calls[i] = 0
    /\ estage = "fatal" => ~check

\* The index of a call on two points failed and the call has ended.
C23_Witness ==
    /\ estage = "fatal"
    /\ ~check
    /\ index_calls = 1
    /\ est_n = 2
    /\ \A i \in 0..(est_n - 1) : epc[i] = "todo"

\* ------------------------------------------------------------ solve_svd3x3

\* Numbers are exact fractions num / den with den > 0, in lowest terms.
RECURSIVE Gcd(_, _)
Gcd(a, b) == IF b = 0 THEN a ELSE Gcd(b, a % b)

Lowest(p) ==
    LET g == Gcd(Abs(p.num), p.den)
    IN  [num |-> p.num \div g, den |-> p.den \div g]

Frac(a) == [num |-> a, den |-> 1]

Plus(p, q) == Lowest(FracAdd(p, q))
Times(p, q) == Lowest(FracMul(p, q))
Less(p, q) == p.num * q.den < q.num * p.den

\* const scalar_t epsilon = 1e-6
epsilon == [num |-> 1, den |-> 1000000]

\* 1.0 / s for s > 0
Reciprocal(p) == [num |-> p.den, den |-> p.num]

\* What svd can hand back: U and V as row-major arrays U[0..8] =
\* u11, u12, u13, u21, ..., and three singular values.
RowMajor(rows) == [o \in 0..8 |-> rows[(o \div 3) + 1][(o % 3) + 1]]

SvdFactors ==
    {RowMajor(<<<<1, 0, 0>>, <<0, 1, 0>>, <<0, 0, 1>>>>),
     RowMajor(<<<<0, 1, 0>>, <<0, 0, 1>>, <<1, 0, 0>>>>),
     RowMajor(<<<<0, -1, 0>>, <<1, 0, 0>>, <<0, 0, 1>>>>),
     RowMajor(<<<<0, 0, -1>>, <<0, -1, 0>>, <<-1, 0, 0>>>>)}

SingularValues ==
    {[num |-> 0, den |-> 1], [num |-> 1, den |-> 2000000],
     [num |-> 1, den |-> 1000000], [num |-> 1, den |-> 2],
     [num |-> 2, den |-> 1], [num |-> -1, den |-> 1]}

RightHandSides ==
    {[o \in 0..2 |-> <<1, 2, 3>>[o + 1]], [o \in 0..2 |-> <<0, -1, 2>>[o + 1]]}

\* Faulty variant: a singular value equal to the threshold is dropped too.
SigmaPlusInclusive(s) ==
    IF ~Less(epsilon, s) THEN Frac(0) ELSE Reciprocal(s)

\* S[k] = S[k] < epsilon ? 0 : 1.0 / S[k]
SigmaPlus(s) == IF Less(s, epsilon) THEN Frac(0) ELSE Reciprocal(s)

\* matmul3x3_3x1: o = m * v, m row-major.
matmul3x3_3x1(m, v) ==
    [i \in 0..2 |->
        Plus(Plus(Times(m[3 * i], v[0]), Times(m[3 * i + 1], v[1])),
             Times(m[3 * i + 2], v[2]))]

\* matmul3x3_3x3: column c of the product is a times column c of b.
matmul3x3_3x3(a, b) ==
    LET col(c) == matmul3x3_3x1(a, [r \in 0..2 |-> b[3 * r + c]])
    IN  [o \in 0..8 |-> col(o % 3)[o \div 3]]

\* Faulty variant: the second factor is diag(S) * U instead of
\* diag(S) * U^T.
PseudoInverseNoTranspose(Um, Sp, Vm) ==
    matmul3x3_3x3([o \in 0..8 |-> Frac(Vm[o])],
                  [o \in 0..8 |-> Times(Frac(Um[o]), Sp[o \div 3])])

\* matmul3x3_3x3(V[0..8], U[0]*S[0], U[3]*S[0], U[6]*S[0], U[1]*S[1],
\* U[4]*S[1], U[7]*S[1], U[2]*S[2], U[5]*S[2], U[8]*S[2], Ainv[0..8])
PseudoInverse(Um, Sp, Vm) ==
    matmul3x3_3x3([o \in 0..8 |-> Frac(Vm[o])],
                  [o \in 0..8 |->
                      Times(Frac(Um[3 * (o % 3) + (o \div 3)]), Sp[o \div 3])])

InitSolve ==
    /\ svd_U = <<>>
    /\ svd_S = <<>>
    /\ sigma = <<>>
    /\ svd_V = <<>>
    /\ rhs \in RightHandSides
    /\ Ainv = <<>>
    /\ sol = <<>>
    /\ spc = "svd"
    /\ ReduceIdle
    /\ ProjectIdle
    /\ RtIdle
    /\ EstimateIdle
    /\ DetIdle
    /\ IndexIdle
    /\ GradientIdle
    /\ SvdIdle

\* svd(a11, ..., a33, U[0], ..., U[8], S[0], S[1], S[2], V[0], ..., V[8])
SolveSvd ==
    /\ spc = "svd"
    /\ svd_U' \in SvdFactors
    /\ svd_V' \in SvdFactors
    /\ svd_S' \in [0..2 -> SingularValues]
    /\ sigma' = svd_S'
    /\ spc' = "sigma"
    /\ UNCHANGED <<rhs, Ainv, sol>>
    /\ UNCHANGED nonSolve

\* Sigma^+
SolveSigma ==
    /\ spc = "sigma"
    /\ svd_S' = [k \in 0..2 |-> SigmaPlus(svd_S[k])]
    /\ spc' = "compose"
    /\ UNCHANGED <<svd_U, sigma, svd_V, rhs, Ainv, sol>>
    /\ UNCHANGED nonSolve

\* Ainv = V * [(Sigma^+) * UT]
SolveCompose ==
    /\ spc = "compose"
    /\ Ainv' = PseudoInverse(svd_U, svd_S, svd_V)
    /\ spc' = "solve"
    /\ UNCHANGED <<svd_U, svd_S, sigma, svd_V, rhs, sol>>
    /\ UNCHANGED nonSolve

\* x = Ainv * b
SolveApply ==
    /\ spc = "solve"
    /\ sol' = matmul3x3_3x1(Ainv, [o \in 0..2 |-> Frac(rhs[o])])
    /\ spc' = "done"
    /\ UNCHANGED <<svd_U, svd_S, sigma, svd_V, rhs, Ainv>>
    /\ UNCHANGED nonSolve

NextSolve ==
    \/ SolveSvd
    \/ SolveSigma
    \/ SolveCompose
    \/ SolveApply

SpecSolve == InitSolve /\ [][NextSolve]_vars

\* ------------------------------------------------ solve_svd3x3: properties

\* The singular values svd returned that are not below the threshold.
Kept == {k \in 0..2 : sigma[k].num * 1000000 >= sigma[k].den}

\* Sum of three fractions given as a function on 0..2.
Sum3(f) == Plus(Plus(f[0], f[1]), f[2])

DetEntries == {-1, 0, 1}

\* Row-major position of m<r><c>.
At(m, r, c) == m[3 * r + c]

\* The return expression of det3x3 as the source writes it.
det3x3(m) ==
    At(m, 0, 0) * (At(m, 1, 1) * At(m, 2, 2) - At(m, 1, 2) * At(m, 2, 1))
    - At(m, 1, 0) * (At(m, 0, 1) * At(m, 2, 2) - At(m, 0, 2) - At(m, 2, 1))
    + At(m, 2, 0) * (At(m, 0, 1) * At(m, 1, 2) - At(m, 0, 2) * At(m, 1, 1))

InitDet ==
    /\ det_m \in [0..8 -> DetEntries]
    /\ det_ret = 0
    /\ dpc = "call"
    /\ ReduceIdle
    /\ ProjectIdle
    /\ RtIdle
    /\ EstimateIdle
    /\ SolveIdle
    /\ IndexIdle
    /\ GradientIdle
    /\ SvdIdle

\* The call of det3x3 returns.
CallDet ==
    /\ dpc = "call"
    /\ det_ret' = det3x3(det_m)
    /\ dpc' = "done"
    /\ UNCHANGED det_m
    /\ UNCHANGED nonDet

NextDet == CallDet

SpecDet == InitDet /\ [][NextDet]_vars

\* C26: det3x3 returns the determinant of the row-major matrix it is given:
\* the cofactor expansion m00*(m11*m22 - m12*m21) - m10*(m01*m22 - m02*m21)
\* + m20*(m01*m12 - m02*m11).  The source subtracts m02 and m21 in the second
\* cofactor where the determinant multiplies them, so the returned value is
\* wrong whenever m10 # 0 and m02 + m21 # m02 * m21.
C26_Determinant ==
    dpc = "done" =>
        det_ret =
            At(det_m, 0, 0) * (At(det_m, 1, 1) * At(det_m, 2, 2)
                               - At(det_m, 1, 2) * At(det_m, 2, 1))
            - At(det_m, 1, 0) * (At(det_m, 0, 1) * At(det_m, 2, 2)
                                 - At(det_m, 0, 2) * At(det_m, 2, 1))
            + At(det_m, 2, 0) * (At(det_m, 0, 1) * At(det_m, 1, 2)
                                 - At(det_m, 0, 2) * At(det_m, 1, 1))

\* ------------------------------------------ Get3x3SxyLinearSystem: offsets
\* The widths of the index arithmetic.  A value is carried as two digits
\* hi * Base + lo with 0 <= lo < Base, so that the 32-bit int is the values
\* with -Half <= hi < Half and an int64_t offset keeps its upper digits.

\* 2^16: one digit.
Base == 65536
\* 2^15: hi >= Half is no int.
Half == 32768

Wide(h, l) == [hi |-> h + l \div Base, lo |-> l % Base]

\* 3 * x + k in 64-bit arithmetic.
Mul3Add(x, k) == Wide(3 * x.hi, 3 * x.lo + k)

\* Whether an int holds the value.
FitsInt(x) == x.hi < Half /\ x.hi >= -Half

\* The conversion of an int64_t value to int: the low 32 bits, read as a
\* signed number.
NarrowToInt(x) ==
    LET h == x.hi % Base
    IN  [hi |-> IF h >= Half THEN h - Base ELSE h, lo |-> x.lo]

\* a < b for two values.
Below(a, b) == a.hi < b.hi \/ (a.hi = b.hi /\ a.lo < b.lo)

\* What an overflowing int expression can evaluate to (signed overflow is
\* undefined): the wrapped value, or the value of a wider register.
IntOutcomes == {"wrap", "wide"}

\* 3 * i + k with i an int, computed in int.
IntMul3Add(i, k, outcome) ==
    LET e == Mul3Add(i, k)
    IN  IF FitsInt(e) \/ outcome = "wide" THEN e ELSE NarrowToInt(e)

\* Lengths of the source cloud: 2, 715827884 and 2^31 + 2 points.
SourceLengths == {Wide(0, 2), Wide(10922, 43692), Wide(Half, 2)}

\* Source indices: 0, 1, 715827882 and 715827883 (3 * 715827883 > 2^31).
SourceIndices == {Wide(0, 0), Wide(0, 1), Wide(10922, 43690), Wide(10922, 43691)}

\* Target indices: 0, 1, 715827882 (3c + 2 = 2^31), 715827883 and
\* 1431655766 (3c = 2^32 + 2).
TargetIndices ==
    {Wide(0, 0), Wide(0, 1), Wide(10922, 43690), Wide(10922, 43691),
     Wide(21845, 21846)}

InitIndex ==
    /\ src_length \in SourceLengths
    /\ src_idx \in {i \in SourceIndices : Below(i, src_length)}
    /\ corr_idx \in TargetIndices
    /\ loop_n = Wide(0, 0)
    /\ mean_reads = <<>>
    /\ sxy_reads = <<>>
    /\ ipc = "length"
    /\ ReduceIdle
    /\ ProjectIdle
    /\ RtIdle
    /\ EstimateIdle
    /\ SolveIdle
    /\ DetIdle
    /\ GradientIdle
    /\ SvdIdle

\* int n = source_points.GetLength();
TakeLength ==
    /\ ipc = "length"
    /\ loop_n' = NarrowToInt(src_length)
    /\ ipc' = "first"
    /\ UNCHANGED <<src_length, src_idx, corr_idx, mean_reads, sxy_reads>>
    /\ UNCHANGED nonIndex

\* blocked_range<int>(0, n) does not hold the index: no pass visits it.
SkipIndex ==
    /\ ipc = "first"
    /\ ~Below(src_idx, loop_n)
    /\ ipc' = "skipped"
    /\ UNCHANGED <<src_length, loop_n, src_idx, corr_idx, mean_reads,
                   sxy_reads>>
    /\ UNCHANGED nonIndex

\* The iteration of the first pass for the pair: int64_t target_idx =
\* 3 * correspondence_indices[workload_idx]; source offsets 3 * workload_idx
\* + k are int expressions.
FirstPassReads(outcome) ==
    /\ ipc = "first"
    /\ Below(src_idx, loop_n)
    /\ mean_reads' =
          [src |-> [k \in 0..2 |-> IntMul3Add(src_idx, k, outcome)],
           tgt |-> [k \in 0..2 |-> Mul3Add(corr_idx, k)]]
    /\ ipc' = "second"
    /\ UNCHANGED <<src_length, loop_n, src_idx, corr_idx, sxy_reads>>
    /\ UNCHANGED nonIndex

\* The iteration of the second pass for the pair: const int source_idx =
\* 3 * workload_idx + row; const int target_idx =
\* 3 * correspondence_indices[workload_idx] + col.
SecondPassReads(outcome) ==
    /\ ipc = "second"
    /\ sxy_reads' =
          [i \in 0..8 |->
              LET row == i % 3
                  col == i \div 3
              IN  [src |-> IntMul3Add(src_idx, row, outcome),
                   tgt |-> NarrowToInt(Mul3Add(corr_idx, col))]]
    /\ ipc' = "done"
    /\ UNCHANGED <<src_length, loop_n, src_idx, corr_idx, mean_reads>>
    /\ UNCHANGED nonIndex

NextIndex ==
    \/ TakeLength
    \/ SkipIndex
    \/ \E outcome \in IntOutcomes : FirstPassReads(outcome)
    \/ \E outcome \in IntOutcomes : SecondPassReads(outcome)

SpecIndex == InitIndex /\ [][NextIndex]_vars

\* C29: the loop bound n is the source length, every source index below the
\* length is visited, and for the pair (i, c) the second pass reads source
\* offset 3i + row and target offset 3c + col, the offsets the first pass
\* summed, also when an offset is 2^31 or more.
C29_SameOffsetsNoTruncation ==
    /\ ipc # "length" => loop_n = src_length
    /\ ipc # "skipped"
    /\ ipc = "done" =>
          \A i \in 0..8 :
              /\ sxy_reads[i].src = Mul3Add(src_idx, i % 3)
              /\ sxy_reads[i].src = mean_reads.src[i % 3]
              /\ sxy_reads[i].tgt = Mul3Add(corr_idx, i \div 3)
              /\ sxy_reads[i].tgt = mean_reads.tgt[i \div 3]

\* --------------- EstimatePointWiseColorGradientCPU: the neighbour loop
\* One iteration of the parallel loop for a point with at least 4 neighbours:
\* the normal equations AtA, Atb are built from the neighbour list of the
\* point and handed to solve_svd3x3.

\* points.GetLength() of the gradient call.
grad_n == 4

\* max_nn: the capacity of one neighbour list.
max_nn == 5

\* The point cloud: positions, normals and colors, 3 floats per point.
grad_points_ptr ==
    [o \in 0..(3 * grad_n - 1) |->
        <<0, 0, 0, 1, 0, 0, 0, 1, 0, 1, 1, 1>>[o + 1]]
grad_normals_ptr ==
    [o \in 0..(3 * grad_n - 1) |->
        <<0, 0, 1, 1, 0, 1, 0, 1, 0, 1, 0, 0>>[o + 1]]
grad_colors_ptr ==
    [o \in 0..(3 * grad_n - 1) |->
        <<0, 0, 0, 3, 0, 0, 0, 3, 3, 1, 1, 1>>[o + 1]]

\* What a read outside an array can deliver.
Garbage == {0, 2}

\* arr[off]; g when off is no offset of the array.
ReadAt(arr, off, g) == IF off \in DOMAIN arr THEN arr[off] ELSE g

\* Neighbour lists of one point: slot 0 is the point itself, every other
\* slot holds a point index or the sentinel -1.
NeighbourLists(q) ==
    {l \in [0..(max_nn - 1) -> {-1} \cup (0..(grad_n - 1))] : l[0] = q}

\* Faulty variant: the regularization row is weighted by the loop variable.
ConstraintWeightFull(i) == i

\* (i - 1): the weight of the orthogonal constraint.
ConstraintWeight(i) == i - 1

\* The sum a[p] += x[r] * x[c] over the six entries the code accumulates.
AccumulateOuter(a, x) ==
    [p \in 0..8 |->
        CASE p = 0 -> a[0] + x[0] * x[0]
          [] p = 1 -> a[1] + x[1] * x[0]
          [] p = 2 -> a[2] + x[2] * x[0]
          [] p = 4 -> a[4] + x[1] * x[1]
          [] p = 5 -> a[5] + x[2] * x[1]
          [] p = 8 -> a[8] + x[2] * x[2]
          [] OTHER -> a[p]]

InitGradient ==
    /\ query \in {0, 1}
    /\ nb_count \in 4..max_nn
    /\ \E l \in NeighbourLists(query) :
          nb_indices =
              [o \in 0..(grad_n * max_nn - 1) |->
                  IF o \div max_nn = query THEN l[o % max_nn] ELSE -1]
    /\ loop_i = 1
    /\ AtA = Zeros(9)
    /\ Atb = Zeros(3)
    /\ a_rows = <<>>
    /\ reads = {}
    /\ solve_arg = Zeros(9)
    /\ gpc = "loop"
    /\ ReduceIdle
    /\ ProjectIdle
    /\ RtIdle
    /\ EstimateIdle
    /\ SolveIdle
    /\ DetIdle
    /\ IndexIdle
    /\ SvdIdle

\* One pass through the body of for (i = 1; i < neighbour_count; i++).
NeighbourStep(g) ==
    /\ gpc = "loop"
    /\ loop_i < nb_count
    /\ LET neighbour_offset == max_nn * query
           pidx == 3 * query
           neighbour_idx == 3 * nb_indices[neighbour_offset + loop_i]
           vt == [k \in 0..2 |-> grad_points_ptr[pidx + k]]
           nrm == [k \in 0..2 |-> grad_normals_ptr[pidx + k]]
           it3 == grad_colors_ptr[pidx] + grad_colors_ptr[pidx + 1]
                  + grad_colors_ptr[pidx + 2]
           s == vt[0] * nrm[0] + vt[1] * nrm[1] + vt[2] * nrm[2]
           vt_adj == [k \in 0..2 |->
                         ReadAt(grad_points_ptr, neighbour_idx + k, g)]
           d == vt_adj[0] * nrm[0] + vt_adj[1] * nrm[1]
                + vt_adj[2] * nrm[2] - s
           vt_proj == [k \in 0..2 |-> vt_adj[k] - d * nrm[k]]
           it_adj3 == ReadAt(grad_colors_ptr, neighbour_idx, g)
                      + ReadAt(grad_colors_ptr, neighbour_idx + 1, g)
                      + ReadAt(grad_colors_ptr, neighbour_idx + 2, g)
           A == [k \in 0..2 |-> vt_proj[k] - vt[k]]
           b3 == it_adj3 - it3
       IN  IF neighbour_idx = -1
           THEN /\ gpc' = "constraint"
                /\ UNCHANGED <<loop_i, AtA, Atb, a_rows, reads>>
           ELSE /\ AtA' = AccumulateOuter(AtA, A)
                /\ Atb' = [k \in 0..2 |-> Atb[k] + A[k] * b3]
                /\ a_rows' = Append(a_rows, A)
                /\ reads' = reads \cup {neighbour_idx + k : k \in 0..2}
                /\ loop_i' = loop_i + 1
                /\ UNCHANGED gpc
    /\ UNCHANGED <<query, nb_count, nb_indices, solve_arg>>
    /\ UNCHANGED nonGradient

\* The loop condition i < neighbour_count fails.
LoopExit ==
    /\ gpc = "loop"
    /\ loop_i >= nb_count
    /\ gpc' = "constraint"
    /\ UNCHANGED <<query, nb_count, nb_indices, loop_i, AtA, Atb, a_rows,
                   reads, solve_arg>>
    /\ UNCHANGED nonGradient

\* Orthogonal constraint: the row (i - 1) * nt is added to the normal
\* equations.
Constraint ==
    /\ gpc = "constraint"
    /\ LET A == [k \in 0..2 |->
                    ConstraintWeight(loop_i) * grad_normals_ptr[3 * query + k]]
       IN  AtA' = AccumulateOuter(AtA, A)
    /\ gpc' = "symmetry"
    /\ UNCHANGED <<query, nb_count, nb_indices, loop_i, Atb, a_rows, reads,
                   solve_arg>>
    /\ UNCHANGED nonGradient

\* AtA[3] = AtA[1]; AtA[6] = AtA[2]; AtA[7] = AtA[5];
Symmetry ==
    /\ gpc = "symmetry"
    /\ AtA' = [AtA EXCEPT ![3] = AtA[1], ![6] = AtA[2], ![7] = AtA[5]]
    /\ gpc' = "solve"
    /\ UNCHANGED <<query, nb_count, nb_indices, loop_i, Atb, a_rows, reads,
                   solve_arg>>
    /\ UNCHANGED nonGradient

\* solve_svd3x3(AtA[0], ..., AtA[8], Atb[0], Atb[1], Atb[2], ...)
CallSolve ==
    /\ gpc = "solve"
    /\ solve_arg' = AtA
    /\ gpc' = "done"
    /\ UNCHANGED <<query, nb_count, nb_indices, loop_i, AtA, Atb, a_rows, reads>>
    /\ UNCHANGED nonGradient

NextGradient ==
    \/ \E g \in Garbage : NeighbourStep(g)
    \/ LoopExit
    \/ Constraint
    \/ Symmetry
    \/ CallSolve

SpecGradient == InitGradient /\ [][NextGradient]_vars

\* ------------------------------------------- neighbour loop: properties

\* The slots 1..count-1 of the list of the query point.
Slot(k) == nb_indices[max_nn * query + k]

\* The first slot in 1..count-1 holding the sentinel, count if there is none.
FirstSentinel ==
    LET D == {k \in 1..(nb_count - 1) : Slot(k) = -1}
    IN  IF D = {} THEN nb_count ELSE CHOOSE k \in D : \A j \in D : k <= j

\* Entry (r, c) of the sum of the outer products of the accumulated rows.
RECURSIVE RowsOuter(_, _, _)
RowsOuter(k, r, c) ==
    IF k = 0 THEN 0 ELSE RowsOuter(k - 1, r, c) + a_rows[k][r] * a_rows[k][c]

\* C24: the neighbour loop visits the slots 1..count-1 in order and stops at
\* the first slot holding the sentinel -1, so that a sentinel is never used
\* as an index: every offset read from points/colors is 3j + k with
\* 0 <= j < n and k in 0..2, and when the loop is left the loop variable is
\* the first sentinel slot (the count when there is none).
C24_SentinelStopsLoop ==
    /\ \A off \in reads : off >= 0 /\ off < 3 * grad_n
    /\ gpc # "loop" => loop_i = FirstSentinel

\* C25 as stated: the regularization row is the normal of the point scaled by
\* the neighbour count the query reported, and the matrix handed to
\* solve_svd3x3 is symmetric.
C25_WeightIsNeighbourCount ==
    gpc = "done" =>
        /\ \A r, c \in 0..2 :
              solve_arg[3 * r + c] =
                  RowsOuter(Len(a_rows), r, c)
                  + (nb_count * grad_normals_ptr[3 * query + r])
                    * (nb_count * grad_normals_ptr[3 * query + c])
        /\ \A r, c \in 0..2 : solve_arg[3 * r + c] = solve_arg[3 * c + r]

\* C25 amended: the regularization row is the normal of the point scaled by
\* the neighbour count minus one (the number of slots 1..count-1, the point
\* itself in slot 0 not counted), and the matrix handed to solve_svd3x3 is
\* the sum of the outer products of the neighbour rows and of that row, and
\* is symmetric.
C25_WeightIsCountMinusOne ==
    gpc = "done" =>
        /\ \A r, c \in 0..2 :
              solve_arg[3 * r + c] =
                  RowsOuter(Len(a_rows), r, c)
                  + ((nb_count - 1) * grad_normals_ptr[3 * query + r])
                    * ((nb_count - 1) * grad_normals_ptr[3 * query + c])
        /\ \A r, c \in 0..2 : solve_arg[3 * r + c] = solve_arg[3 * c + r]

\* The normal equations of a point with 5 listed neighbours, none of them a
\* sentinel, were handed to the solver with a nonzero off-diagonal entry.
C25_Witness ==
    /\ gpc = "done"
    /\ nb_count = 5
    /\ \A k \in 1..4 : Slot(k) # -1
    /\ Len(a_rows) = 4
    /\ \E r, c \in 0..2 : r # c /\ solve_arg[3 * r + c] # 0

\* -------------------------------------------------------------------- svd

\* The element types svd is specialised for.
Scalars == {"float", "double"}

\* #define gone, gsine_pi_over_eight, gcosine_pi_over_eight: the bit
\* patterns of the floats 1, sin(pi/8) and cos(pi/8).
gone == 1065353216
gsine_pi_over_eight == 1053028117
gcosine_pi_over_eight == 1064076127

\* The float whose bit pattern is b, for a positive normal float:
\* (2^23 + mantissa) * 2^(exponent - 150).
FloatOf(b) ==
    Lowest([num |-> 8388608 + (b % 8388608),
            den |-> 2 ^ (150 - (b \div 8388608))])

\* A 32-bit word, as the integer view ui of a local shows it:
\*   <<"f", n, d, 0, 0>>     the bit pattern of the float n / d
\*   <<"w", n, 0, 0, 0>>     the integer n
\*   <<"ones", 0, 0, 0, 0>>  0xffffffff
\*   <<"xor", a, b, c, d>>   the exclusive or of two different words of
\*                           one kind, <<k, a, b, 0, 0>> ^ <<k, c, d, 0, 0>>
\* +0 and -0 are one number here, so they share the pattern of +0.
FloatWord(p) == <<"f", p.num, p.den, 0, 0>>
IntWord(x) == <<"w", x, 0, 0, 0>>
Ones == <<"ones", 0, 0, 0, 0>>

\* The word of all zero bits: +0.0 as a float.
ZeroWord(s) == IF s = "float" THEN FloatWord(Frac(0)) ELSE IntWord(0)
IsZero(w) == w = FloatWord(Frac(0)) \/ w = IntWord(0)

\* union un { scalar_t f; unsigned int ui; }: a local is [hi, lo], lo the
\* word ui overlays and hi the rest of f. ui overlays all of a float, so
\* lo is the float's pattern and hi is unused. ui overlays the low-order
\* word of a double (the targets are little-endian), so hi is the double
\* with its low word cleared and lo is that low word.
\*
\* The numbers of the model have at most 21 significant bits: a float
\* holds them exactly, a double holds them exactly with a zero low word,
\* and no __fadd_rn, __fsub_rn or product rounds.
Exact(p) == p.den \in {2 ^ k : k \in 0..24} /\ Abs(p.num) < 2097152

\* X.f = p
StoreF(s, p) ==
    CASE Exact(p) /\ s = "float" -> [hi |-> Frac(0), lo |-> FloatWord(p)]
      [] Exact(p) /\ s = "double" -> [hi |-> p, lo |-> IntWord(0)]

\* X.f read: a double whose low word is not zero is no number of the
\* model, and neither is a float whose word is a mask.
F(s, r) ==
    CASE s = "float" /\ r.lo[1] = "f" -> [num |-> r.lo[2], den |-> r.lo[3]]
      [] s = "double" /\ r.lo = IntWord(0) -> r.hi

\* X.ui = w: the word is replaced, the rest of f stays.
StoreUi(s, r, w) == [r EXCEPT !.lo = w]

\* cond ? 0xffffffff : 0
MaskOf(s, cond) == IF cond THEN Ones ELSE ZeroWord(s)

\* a & b, one of the two a mask or zero
And(s, a, b) ==
    CASE a = Ones -> b
      [] b = Ones -> a
      [] IsZero(a) \/ IsZero(b) -> ZeroWord(s)

\* ~a & b, a a mask
AndNot(s, a, b) ==
    CASE a = Ones -> ZeroWord(s)
      [] IsZero(a) -> b

\* a | b, one of the two zero
Or(a, b) ==
    CASE IsZero(a) -> b
      [] IsZero(b) -> a

\* a ^ b: x ^ x = 0, x ^ 0 = x and x ^ (x ^ y) = y
Xor(s, a, b) ==
    LET plain == IF s = "float" THEN "f" ELSE "w"
        left == <<plain, b[2], b[3], 0, 0>>
        right == <<plain, b[4], b[5], 0, 0>>
    IN  CASE a = b -> ZeroWord(s)
          [] IsZero(b) -> a
          [] IsZero(a) -> b
          [] b[1] = "xor" /\ a = left -> right
          [] b[1] = "xor" /\ a = right -> left
          [] a[1] = plain /\ b[1] = plain -> <<"xor", a[2], a[3], b[2], b[3]>>

\* The literals assigned to and multiplied with .f
ConstF(c) ==
    CASE c = "0.f" -> Frac(0)
      [] c = "1.f" -> Frac(1)
      [] c = "-2.f" -> Frac(-2)
      [] c \in {"0.5f", "0.5"} -> [num |-> 1, den |-> 2]
      [] c = "gfour_gamma_squared" -> [num |-> 6111549, den |-> 1048576]

\* The integer constants combined with .ui: in a float the word is the
\* whole value, in a double it is the low word.
ConstWord(s, c) ==
    LET bits == CASE c = "gone" -> gone
                  [] c = "gsine_pi_over_eight" -> gsine_pi_over_eight
                  [] c = "gcosine_pi_over_eight" -> gcosine_pi_over_eight
    IN  IF s = "float" THEN FloatWord(FloatOf(bits)) ELSE IntWord(bits)

\* __frsqrt_rn(x), __drcp_rn(__dsqrt_rn(x)): 1 / sqrt(x), exact on the
\* squares of the model's numbers.
Rsqrt(p) ==
    LET root(x) == CHOOSE y \in 0..x : y * y = x
    IN  [num |-> root(p.den), den |-> root(p.num)]

\* max(x, y)
Max(p, q) == IF Less(p, q) THEN q ELSE p

\* x >= gsmall_number, x >= gtiny_number: the constants are 1e-12 and
\* 1e-20 and every positive number of the model is at least 2^-24.
AtLeastSmall(p) == p.num >= 1

\* max(x, gsmall_number) for x >= gsmall_number
MaxSmall(p) == CASE AtLeastSmall(p) -> p

\* Faulty variant: columns of equal norm are swapped too.
NotLarger(p, q) == ~Less(q, p)

\* (x < y), the test of the three conditional column swaps
Smaller(p, q) == Less(p, q)

\* One statement of svd on the locals r of element type s. A statement is
\* <<operation, destination, operands...>>.
Exec(s, ins, r) ==
    LET o == ins[1]
        d == ins[2]
        f(k) == F(s, r[ins[k]])
        ui(k) == r[ins[k]].lo
        setf(p) == [r EXCEPT ![d] = StoreF(s, p)]
        setui(w) == [r EXCEPT ![d] = StoreUi(s, r[d], w)]
    IN  CASE o = "mul" -> setf(Times(f(3), f(4)))
          [] o = "add" -> setf(Plus(f(3), f(4)))
          [] o = "sub" -> setf(Plus(f(3), Times(Frac(-1), f(4))))
          [] o = "mulc" -> setf(Times(f(3), ConstF(ins[4])))
          [] o = "set" -> setf(ConstF(ins[3]))
          [] o = "mov" -> setf(f(3))
          [] o = "rsqrt" -> setf(Rsqrt(f(3)))
          [] o = "max" -> setf(Max(f(3), f(4)))
          [] o = "maxc" -> setf(MaxSmall(f(3)))
          [] o = "lt" -> setui(MaskOf(s, Smaller(f(3), f(4))))
          [] o = "le" -> setui(MaskOf(s, ~Less(f(4), f(3))))
          [] o = "ge" -> setui(MaskOf(s, ~Less(f(3), f(4))))
          [] o = "gec" -> setui(MaskOf(s, AtLeastSmall(f(3))))
          [] o = "xor" -> setui(Xor(s, ui(3), ui(4)))
          [] o = "and" -> setui(And(s, ui(3), ui(4)))
          [] o = "or" -> setui(Or(ui(3), ui(4)))
          [] o = "andn" -> setui(AndNot(s, ui(3), ui(4)))
          [] o = "andc" -> setui(And(s, ConstWord(s, ins[3]), ui(4)))
          [] o = "andnc" -> setui(AndNot(s, ui(3), ConstWord(s, ins[4])))

\* The statements code[lo], ..., code[hi] in order: the first half, and
\* on the locals it leaves the second half.
RECURSIVE RunRange(_, _, _, _, _)
RunRange(s, code, lo, hi, r) ==
    IF lo > hi THEN r
    ELSE IF lo = hi THEN Exec(s, code[lo], r)
    ELSE LET mid == (lo + hi) \div 2
             half == RunRange(s, code, lo, mid, r)
         IN  IF DOMAIN half = DOMAIN r
             THEN RunRange(s, code, mid + 1, hi, half)
             ELSE half

\* A stretch of svd, statement by statement.
Run(s, code, r) == RunRange(s, code, 1, Len(code), r)

\* Compute normal equations matrix; the quaternion starts at (1, 0, 0, 0):
\* svd<float> lines 1217-1256; svd<double> has the same statements at lines
\* 153-192.
NormalEquationsCode ==
    <<<<"mul", "Ss11", "Sa11", "Sa11">>, <<"mul", "Stmp1", "Sa21", "Sa21">>,
      <<"add", "Ss11", "Stmp1", "Ss11">>, <<"mul", "Stmp1", "Sa31", "Sa31">>,
      <<"add", "Ss11", "Stmp1", "Ss11">>, <<"mul", "Ss21", "Sa12", "Sa11">>,
      <<"mul", "Stmp1", "Sa22", "Sa21">>, <<"add", "Ss21", "Stmp1", "Ss21">>,
      <<"mul", "Stmp1", "Sa32", "Sa31">>, <<"add", "Ss21", "Stmp1", "Ss21">>,
      <<"mul", "Ss31", "Sa13", "Sa11">>, <<"mul", "Stmp1", "Sa23", "Sa21">>,
      <<"add", "Ss31", "Stmp1", "Ss31">>, <<"mul", "Stmp1", "Sa33", "Sa31">>,
      <<"add", "Ss31", "Stmp1", "Ss31">>, <<"mul", "Ss22", "Sa12", "Sa12">>,
      <<"mul", "Stmp1", "Sa22", "Sa22">>, <<"add", "Ss22", "Stmp1", "Ss22">>,
      <<"mul", "Stmp1", "Sa32", "Sa32">>, <<"add", "Ss22", "Stmp1", "Ss22">>,
      <<"mul", "Ss32", "Sa13", "Sa12">>, <<"mul", "Stmp1", "Sa23", "Sa22">>,
      <<"add", "Ss32", "Stmp1", "Ss32">>, <<"mul", "Stmp1", "Sa33", "Sa32">>,
      <<"add", "Ss32", "Stmp1", "Ss32">>, <<"mul", "Ss33", "Sa13", "Sa13">>,
      <<"mul", "Stmp1", "Sa23", "Sa23">>, <<"add", "Ss33", "Stmp1", "Ss33">>,
      <<"mul", "Stmp1", "Sa33", "Sa33">>, <<"add", "Ss33", "Stmp1", "Ss33">>,
      <<"set", "Sqvs", "1.f">>, <<"set", "Sqvvx", "0.f">>,
      <<"set", "Sqvvy", "0.f">>, <<"set", "Sqvvz", "0.f">>>>

\* First conjugation of an iteration, the branch-free choice of (ch, sh):
\* svd<float> lines 1262-1270; svd<double> has the same statements at lines
\* 198-206.
SelectCode ==
    <<<<"mulc", "Ssh", "Ss21", "0.5f">>, <<"sub", "Stmp5", "Ss11", "Ss22">>,
      <<"mul", "Stmp2", "Ssh", "Ssh">>,
      <<"gec", "Stmp1", "Stmp2", "gtiny_number">>,
      <<"and", "Ssh", "Stmp1", "Ssh">>, <<"and", "Sch", "Stmp1", "Stmp5">>,
      <<"andnc", "Stmp2", "Stmp1", "gone">>, <<"or", "Sch", "Sch", "Stmp2">>>>

\* First conjugation continued: the rotation, its conjugation of S and the
\* quaternion: svd<float> lines 1272-1357; svd<double> has the same
\* statements at lines 208-293.
Conjugate21Code ==
    <<<<"mul", "Stmp1", "Ssh", "Ssh">>, <<"mul", "Stmp2", "Sch", "Sch">>,
      <<"add", "Stmp3", "Stmp1", "Stmp2">>, <<"rsqrt", "Stmp4", "Stmp3">>,
      <<"mul", "Ssh", "Stmp4", "Ssh">>, <<"mul", "Sch", "Stmp4", "Sch">>,
      <<"mulc", "Stmp1", "Stmp1", "gfour_gamma_squared">>,
      <<"le", "Stmp1", "Stmp2", "Stmp1">>,
      <<"andc", "Stmp2", "gsine_pi_over_eight", "Stmp1">>,
      <<"andn", "Ssh", "Stmp1", "Ssh">>, <<"or", "Ssh", "Ssh", "Stmp2">>,
      <<"andc", "Stmp2", "gcosine_pi_over_eight", "Stmp1">>,
      <<"andn", "Sch", "Stmp1", "Sch">>, <<"or", "Sch", "Sch", "Stmp2">>,
      <<"mul", "Stmp1", "Ssh", "Ssh">>, <<"mul", "Stmp2", "Sch", "Sch">>,
      <<"sub", "Sc", "Stmp2", "Stmp1">>, <<"mul", "Ss", "Sch", "Ssh">>,
      <<"add", "Ss", "Ss", "Ss">>, <<"add", "Stmp3", "Stmp1", "Stmp2">>,
      <<"mul", "Ss33", "Ss33", "Stmp3">>, <<"mul", "Ss31", "Ss31", "Stmp3">>,
      <<"mul", "Ss32", "Ss32", "Stmp3">>, <<"mul", "Ss33", "Ss33", "Stmp3">>,
      <<"mul", "Stmp1", "Ss", "Ss31">>, <<"mul", "Stmp2", "Ss", "Ss32">>,
      <<"mul", "Ss31", "Sc", "Ss31">>, <<"mul", "Ss32", "Sc", "Ss32">>,
      <<"add", "Ss31", "Stmp2", "Ss31">>, <<"sub", "Ss32", "Ss32", "Stmp1">>,
      <<"mul", "Stmp2", "Ss", "Ss">>, <<"mul", "Stmp1", "Ss22", "Stmp2">>,
      <<"mul", "Stmp3", "Ss11", "Stmp2">>, <<"mul", "Stmp4", "Sc", "Sc">>,
      <<"mul", "Ss11", "Ss11", "Stmp4">>, <<"mul", "Ss22", "Ss22", "Stmp4">>,
      <<"add", "Ss11", "Ss11", "Stmp1">>, <<"add", "Ss22", "Ss22", "Stmp3">>,
      <<"sub", "Stmp4", "Stmp4", "Stmp2">>,
      <<"add", "Stmp2", "Ss21", "Ss21">>, <<"mul", "Ss21", "Ss21", "Stmp4">>,
      <<"mul", "Stmp4", "Sc", "Ss">>, <<"mul", "Stmp2", "Stmp2", "Stmp4">>,
      <<"mul", "Stmp5", "Stmp5", "Stmp4">>,
      <<"add", "Ss11", "Ss11", "Stmp2">>, <<"sub", "Ss21", "Ss21", "Stmp5">>,
      <<"sub", "Ss22", "Ss22", "Stmp2">>, <<"mul", "Stmp1", "Ssh", "Sqvvx">>,
      <<"mul", "Stmp2", "Ssh", "Sqvvy">>, <<"mul", "Stmp3", "Ssh", "Sqvvz">>,
      <<"mul", "Ssh", "Ssh", "Sqvs">>, <<"mul", "Sqvs", "Sch", "Sqvs">>,
      <<"mul", "Sqvvx", "Sch", "Sqvvx">>, <<"mul", "Sqvvy", "Sch", "Sqvvy">>,
      <<"mul", "Sqvvz", "Sch", "Sqvvz">>, <<"add", "Sqvvz", "Sqvvz", "Ssh">>,
      <<"sub", "Sqvs", "Sqvs", "Stmp3">>,
      <<"add", "Sqvvx", "Sqvvx", "Stmp2">>,
      <<"sub", "Sqvvy", "Sqvvy", "Stmp1">>>>

\* Second conjugation, on S22, S32, S33: svd<float> lines 1367-1463;
\* svd<double> has the same statements at lines 303-399.
Conjugate32Code ==
    <<<<"mulc", "Ssh", "Ss32", "0.5f">>, <<"sub", "Stmp5", "Ss22", "Ss33">>,
      <<"mul", "Stmp2", "Ssh", "Ssh">>,
      <<"gec", "Stmp1", "Stmp2", "gtiny_number">>,
      <<"and", "Ssh", "Stmp1", "Ssh">>, <<"and", "Sch", "Stmp1", "Stmp5">>,
      <<"andnc", "Stmp2", "Stmp1", "gone">>, <<"or", "Sch", "Sch", "Stmp2">>,
      <<"mul", "Stmp1", "Ssh", "Ssh">>, <<"mul", "Stmp2", "Sch", "Sch">>,
      <<"add", "Stmp3", "Stmp1", "Stmp2">>, <<"rsqrt", "Stmp4", "Stmp3">>,
      <<"mul", "Ssh", "Stmp4", "Ssh">>, <<"mul", "Sch", "Stmp4", "Sch">>,
      <<"mulc", "Stmp1", "Stmp1", "gfour_gamma_squared">>,
      <<"le", "Stmp1", "Stmp2", "Stmp1">>,
      <<"andc", "Stmp2", "gsine_pi_over_eight", "Stmp1">>,
      <<"andn", "Ssh", "Stmp1", "Ssh">>, <<"or", "Ssh", "Ssh", "Stmp2">>,
      <<"andc", "Stmp2", "gcosine_pi_over_eight", "Stmp1">>,
      <<"andn", "Sch", "Stmp1", "Sch">>, <<"or", "Sch", "Sch", "Stmp2">>,
      <<"mul", "Stmp1", "Ssh", "Ssh">>, <<"mul", "Stmp2", "Sch", "Sch">>,
      <<"sub", "Sc", "Stmp2", "Stmp1">>, <<"mul", "Ss", "Sch", "Ssh">>,
      <<"add", "Ss", "Ss", "Ss">>, <<"add", "Stmp3", "Stmp1", "Stmp2">>,
      <<"mul", "Ss11", "Ss11", "Stmp3">>, <<"mul", "Ss21", "Ss21", "Stmp3">>,
      <<"mul", "Ss31", "Ss31", "Stmp3">>, <<"mul", "Ss11", "Ss11", "Stmp3">>,
      <<"mul", "Stmp1", "Ss", "Ss21">>, <<"mul", "Stmp2", "Ss", "Ss31">>,
      <<"mul", "Ss21", "Sc", "Ss21">>, <<"mul", "Ss31", "Sc", "Ss31">>,
      <<"add", "Ss21", "Stmp2", "Ss21">>, <<"sub", "Ss31", "Ss31", "Stmp1">>,
      <<"mul", "Stmp2", "Ss", "Ss">>, <<"mul", "Stmp1", "Ss33", "Stmp2">>,
      <<"mul", "Stmp3", "Ss22", "Stmp2">>, <<"mul", "Stmp4", "Sc", "Sc">>,
      <<"mul", "Ss22", "Ss22", "Stmp4">>, <<"mul", "Ss33", "Ss33", "Stmp4">>,
      <<"add", "Ss22", "Ss22", "Stmp1">>, <<"add", "Ss33", "Ss33", "Stmp3">>,
      <<"sub", "Stmp4", "Stmp4", "Stmp2">>,
      <<"add", "Stmp2", "Ss32", "Ss32">>, <<"mul", "Ss32", "Ss32", "Stmp4">>,
      <<"mul", "Stmp4", "Sc", "Ss">>, <<"mul", "Stmp2", "Stmp2", "Stmp4">>,
      <<"mul", "Stmp5", "Stmp5", "Stmp4">>,
      <<"add", "Ss22", "Ss22", "Stmp2">>, <<"sub", "Ss32", "Ss32", "Stmp5">>,
      <<"sub", "Ss33", "Ss33", "Stmp2">>, <<"mul", "Stmp1", "Ssh", "Sqvvx">>,
      <<"mul", "Stmp2", "Ssh", "Sqvvy">>, <<"mul", "Stmp3", "Ssh", "Sqvvz">>,
      <<"mul", "Ssh", "Ssh", "Sqvs">>, <<"mul", "Sqvs", "Sch", "Sqvs">>,
      <<"mul", "Sqvvx", "Sch", "Sqvvx">>, <<"mul", "Sqvvy", "Sch", "Sqvvy">>,
      <<"mul", "Sqvvz", "Sch", "Sqvvz">>, <<"add", "Sqvvx", "Sqvvx", "Ssh">>,
      <<"sub", "Sqvs", "Sqvs", "Stmp1">>,
      <<"add", "Sqvvy", "Sqvvy", "Stmp3">>,
      <<"sub", "Sqvvz", "Sqvvz", "Stmp2">>>>

\* Third conjugation, on S11, S31, S33: svd<float> lines 1474-1570;
\* svd<double> has the same statements at lines 410-506.
Conjugate31Code ==
    <<<<"mulc", "Ssh", "Ss31", "0.5f">>, <<"sub", "Stmp5", "Ss33", "Ss11">>,
      <<"mul", "Stmp2", "Ssh", "Ssh">>,
      <<"gec", "Stmp1", "Stmp2", "gtiny_number">>,
      <<"and", "Ssh", "Stmp1", "Ssh">>, <<"and", "Sch", "Stmp1", "Stmp5">>,
      <<"andnc", "Stmp2", "Stmp1", "gone">>, <<"or", "Sch", "Sch", "Stmp2">>,
      <<"mul", "Stmp1", "Ssh", "Ssh">>, <<"mul", "Stmp2", "Sch", "Sch">>,
      <<"add", "Stmp3", "Stmp1", "Stmp2">>, <<"rsqrt", "Stmp4", "Stmp3">>,
      <<"mul", "Ssh", "Stmp4", "Ssh">>, <<"mul", "Sch", "Stmp4", "Sch">>,
      <<"mulc", "Stmp1", "Stmp1", "gfour_gamma_squared">>,
      <<"le", "Stmp1", "Stmp2", "Stmp1">>,
      <<"andc", "Stmp2", "gsine_pi_over_eight", "Stmp1">>,
      <<"andn", "Ssh", "Stmp1", "Ssh">>, <<"or", "Ssh", "Ssh", "Stmp2">>,
      <<"andc", "Stmp2", "gcosine_pi_over_eight", "Stmp1">>,
      <<"andn", "Sch", "Stmp1", "Sch">>, <<"or", "Sch", "Sch", "Stmp2">>,
      <<"mul", "Stmp1", "Ssh", "Ssh">>, <<"mul", "Stmp2", "Sch", "Sch">>,
      <<"sub", "Sc", "Stmp2", "Stmp1">>, <<"mul", "Ss", "Sch", "Ssh">>,
      <<"add", "Ss", "Ss", "Ss">>, <<"add", "Stmp3", "Stmp1", "Stmp2">>,
      <<"mul", "Ss22", "Ss22", "Stmp3">>, <<"mul", "Ss32", "Ss32", "Stmp3">>,
      <<"mul", "Ss21", "Ss21", "Stmp3">>, <<"mul", "Ss22", "Ss22", "Stmp3">>,
      <<"mul", "Stmp1", "Ss", "Ss32">>, <<"mul", "Stmp2", "Ss", "Ss21">>,
      <<"mul", "Ss32", "Sc", "Ss32">>, <<"mul", "Ss21", "Sc", "Ss21">>,
      <<"add", "Ss32", "Stmp2", "Ss32">>, <<"sub", "Ss21", "Ss21", "Stmp1">>,
      <<"mul", "Stmp2", "Ss", "Ss">>, <<"mul", "Stmp1", "Ss11", "Stmp2">>,
      <<"mul", "Stmp3", "Ss33", "Stmp2">>, <<"mul", "Stmp4", "Sc", "Sc">>,
      <<"mul", "Ss33", "Ss33", "Stmp4">>, <<"mul", "Ss11", "Ss11", "Stmp4">>,
      <<"add", "Ss33", "Ss33", "Stmp1">>, <<"add", "Ss11", "Ss11", "Stmp3">>,
      <<"sub", "Stmp4", "Stmp4", "Stmp2">>,
      <<"add", "Stmp2", "Ss31", "Ss31">>, <<"mul", "Ss31", "Ss31", "Stmp4">>,
      <<"mul", "Stmp4", "Sc", "Ss">>, <<"mul", "Stmp2", "Stmp2", "Stmp4">>,
      <<"mul", "Stmp5", "Stmp5", "Stmp4">>,
      <<"add", "Ss33", "Ss33", "Stmp2">>, <<"sub", "Ss31", "Ss31", "Stmp5">>,
      <<"sub", "Ss11", "Ss11", "Stmp2">>, <<"mul", "Stmp1", "Ssh", "Sqvvx">>,
      <<"mul", "Stmp2", "Ssh", "Sqvvy">>, <<"mul", "Stmp3", "Ssh", "Sqvvz">>,
      <<"mul", "Ssh", "Ssh", "Sqvs">>, <<"mul", "Sqvs", "Sch", "Sqvs">>,
      <<"mul", "Sqvvx", "Sch", "Sqvvx">>, <<"mul", "Sqvvy", "Sch", "Sqvvy">>,
      <<"mul", "Sqvvz", "Sch", "Sqvvz">>, <<"add", "Sqvvy", "Sqvvy", "Ssh">>,
      <<"sub", "Sqvs", "Sqvs", "Stmp2">>,
      <<"add", "Sqvvz", "Sqvvz", "Stmp1">>,
      <<"sub", "Sqvvx", "Sqvvx", "Stmp3">>>>

\* Normalize quaternion for matrix V: svd<float> lines 1578-1597; svd<double>
\* has the same statements at lines 514-533.
NormalizeCode ==
    <<<<"mul", "Stmp2", "Sqvs", "Sqvs">>,
      <<"mul", "Stmp1", "Sqvvx", "Sqvvx">>,
      <<"add", "Stmp2", "Stmp1", "Stmp2">>,
      <<"mul", "Stmp1", "Sqvvy", "Sqvvy">>,
      <<"add", "Stmp2", "Stmp1", "Stmp2">>,
      <<"mul", "Stmp1", "Sqvvz", "Sqvvz">>,
      <<"add", "Stmp2", "Stmp1", "Stmp2">>, <<"rsqrt", "Stmp1", "Stmp2">>,
      <<"mulc", "Stmp4", "Stmp1", "0.5f">>,
      <<"mul", "Stmp3", "Stmp1", "Stmp4">>,
      <<"mul", "Stmp3", "Stmp1", "Stmp3">>,
      <<"mul", "Stmp3", "Stmp2", "Stmp3">>,
      <<"add", "Stmp1", "Stmp1", "Stmp4">>,
      <<"sub", "Stmp1", "Stmp1", "Stmp3">>,
      <<"mul", "Sqvs", "Sqvs", "Stmp1">>,
      <<"mul", "Sqvvx", "Sqvvx", "Stmp1">>,
      <<"mul", "Sqvvy", "Sqvvy", "Stmp1">>,
      <<"mul", "Sqvvz", "Sqvvz", "Stmp1">>>>

\* Transform quaternion to matrix V: svd<float> lines 1603-1629; svd<double>
\* has the same statements at lines 539-565.
QuaternionToVCode ==
    <<<<"mul", "Stmp1", "Sqvvx", "Sqvvx">>,
      <<"mul", "Stmp2", "Sqvvy", "Sqvvy">>,
      <<"mul", "Stmp3", "Sqvvz", "Sqvvz">>, <<"mul", "Sv11", "Sqvs", "Sqvs">>,
      <<"sub", "Sv22", "Sv11", "Stmp1">>, <<"sub", "Sv33", "Sv22", "Stmp2">>,
      <<"add", "Sv33", "Sv33", "Stmp3">>, <<"add", "Sv22", "Sv22", "Stmp2">>,
      <<"sub", "Sv22", "Sv22", "Stmp3">>, <<"add", "Sv11", "Sv11", "Stmp1">>,
      <<"sub", "Sv11", "Sv11", "Stmp2">>, <<"sub", "Sv11", "Sv11", "Stmp3">>,
      <<"add", "Stmp1", "Sqvvx", "Sqvvx">>,
      <<"add", "Stmp2", "Sqvvy", "Sqvvy">>,
      <<"add", "Stmp3", "Sqvvz", "Sqvvz">>,
      <<"mul", "Sv32", "Sqvs", "Stmp1">>, <<"mul", "Sv13", "Sqvs", "Stmp2">>,
      <<"mul", "Sv21", "Sqvs", "Stmp3">>,
      <<"mul", "Stmp1", "Sqvvy", "Stmp1">>,
      <<"mul", "Stmp2", "Sqvvz", "Stmp2">>,
      <<"mul", "Stmp3", "Sqvvx", "Stmp3">>,
      <<"sub", "Sv12", "Stmp1", "Sv21">>, <<"sub", "Sv23", "Stmp2", "Sv32">>,
      <<"sub", "Sv31", "Stmp3", "Sv13">>, <<"add", "Sv21", "Stmp1", "Sv21">>,
      <<"add", "Sv32", "Stmp2", "Sv32">>, <<"add", "Sv13", "Stmp3", "Sv13">>>>

\* Multiply (from the right) with V: svd<float> lines 1635-1687; svd<double>
\* has the same statements at lines 571-623.
MultiplyAVCode ==
    <<<<"mov", "Stmp2", "Sa12">>, <<"mov", "Stmp3", "Sa13">>,
      <<"mul", "Sa12", "Sv12", "Sa11">>, <<"mul", "Sa13", "Sv13", "Sa11">>,
      <<"mul", "Sa11", "Sv11", "Sa11">>, <<"mul", "Stmp1", "Sv21", "Stmp2">>,
      <<"add", "Sa11", "Sa11", "Stmp1">>, <<"mul", "Stmp1", "Sv31", "Stmp3">>,
      <<"add", "Sa11", "Sa11", "Stmp1">>, <<"mul", "Stmp1", "Sv22", "Stmp2">>,
      <<"add", "Sa12", "Sa12", "Stmp1">>, <<"mul", "Stmp1", "Sv32", "Stmp3">>,
      <<"add", "Sa12", "Sa12", "Stmp1">>, <<"mul", "Stmp1", "Sv23", "Stmp2">>,
      <<"add", "Sa13", "Sa13", "Stmp1">>, <<"mul", "Stmp1", "Sv33", "Stmp3">>,
      <<"add", "Sa13", "Sa13", "Stmp1">>, <<"mov", "Stmp2", "Sa22">>,
      <<"mov", "Stmp3", "Sa23">>, <<"mul", "Sa22", "Sv12", "Sa21">>,
      <<"mul", "Sa23", "Sv13", "Sa21">>, <<"mul", "Sa21", "Sv11", "Sa21">>,
      <<"mul", "Stmp1", "Sv21", "Stmp2">>, <<"add", "Sa21", "Sa21", "Stmp1">>,
      <<"mul", "Stmp1", "Sv31", "Stmp3">>, <<"add", "Sa21", "Sa21", "Stmp1">>,
      <<"mul", "Stmp1", "Sv22", "Stmp2">>, <<"add", "Sa22", "Sa22", "Stmp1">>,
      <<"mul", "Stmp1", "Sv32", "Stmp3">>, <<"add", "Sa22", "Sa22", "Stmp1">>,
      <<"mul", "Stmp1", "Sv23", "Stmp2">>, <<"add", "Sa23", "Sa23", "Stmp1">>,
      <<"mul", "Stmp1", "Sv33", "Stmp3">>, <<"add", "Sa23", "Sa23", "Stmp1">>,
      <<"mov", "Stmp2", "Sa32">>, <<"mov", "Stmp3", "Sa33">>,
      <<"mul", "Sa32", "Sv12", "Sa31">>, <<"mul", "Sa33", "Sv13", "Sa31">>,
      <<"mul", "Sa31", "Sv11", "Sa31">>, <<"mul", "Stmp1", "Sv21", "Stmp2">>,
      <<"add", "Sa31", "Sa31", "Stmp1">>, <<"mul", "Stmp1", "Sv31", "Stmp3">>,
      <<"add", "Sa31", "Sa31", "Stmp1">>, <<"mul", "Stmp1", "Sv22", "Stmp2">>,
      <<"add", "Sa32", "Sa32", "Stmp1">>, <<"mul", "Stmp1", "Sv32", "Stmp3">>,
      <<"add", "Sa32", "Sa32", "Stmp1">>, <<"mul", "Stmp1", "Sv23", "Stmp2">>,
      <<"add", "Sa33", "Sa33", "Stmp1">>, <<"mul", "Stmp1", "Sv33", "Stmp3">>,
      <<"add", "Sa33", "Sa33", "Stmp1">>>>

\* The squared column norms of A*V: svd<float> lines 1693-1709; svd<double>
\* has the same statements at lines 629-645.
ColumnNormsCode ==
    <<<<"mul", "Stmp1", "Sa11", "Sa11">>, <<"mul", "Stmp4", "Sa21", "Sa21">>,
      <<"add", "Stmp1", "Stmp1", "Stmp4">>,
      <<"mul", "Stmp4", "Sa31", "Sa31">>,
      <<"add", "Stmp1", "Stmp1", "Stmp4">>,
      <<"mul", "Stmp2", "Sa12", "Sa12">>, <<"mul", "Stmp4", "Sa22", "Sa22">>,
      <<"add", "Stmp2", "Stmp2", "Stmp4">>,
      <<"mul", "Stmp4", "Sa32", "Sa32">>,
      <<"add", "Stmp2", "Stmp2", "Stmp4">>,
      <<"mul", "Stmp3", "Sa13", "Sa13">>, <<"mul", "Stmp4", "Sa23", "Sa23">>,
      <<"add", "Stmp3", "Stmp3", "Stmp4">>,
      <<"mul", "Stmp4", "Sa33", "Sa33">>,
      <<"add", "Stmp3", "Stmp3", "Stmp4">>>>

\* Swap columns 1-2 if necessary and negate the 2nd column: svd<float> lines
\* 1713-1763; svd<double> has the same statements at lines 649-699.
Swap12Code ==
    <<<<"lt", "Stmp4", "Stmp1", "Stmp2">>, <<"xor", "Stmp5", "Sa11", "Sa12">>,
      <<"and", "Stmp5", "Stmp5", "Stmp4">>,
      <<"xor", "Sa11", "Sa11", "Stmp5">>, <<"xor", "Sa12", "Sa12", "Stmp5">>,
      <<"xor", "Stmp5", "Sa21", "Sa22">>,
      <<"and", "Stmp5", "Stmp5", "Stmp4">>,
      <<"xor", "Sa21", "Sa21", "Stmp5">>, <<"xor", "Sa22", "Sa22", "Stmp5">>,
      <<"xor", "Stmp5", "Sa31", "Sa32">>,
      <<"and", "Stmp5", "Stmp5", "Stmp4">>,
      <<"xor", "Sa31", "Sa31", "Stmp5">>, <<"xor", "Sa32", "Sa32", "Stmp5">>,
      <<"xor", "Stmp5", "Sv11", "Sv12">>,
      <<"and", "Stmp5", "Stmp5", "Stmp4">>,
      <<"xor", "Sv11", "Sv11", "Stmp5">>, <<"xor", "Sv12", "Sv12", "Stmp5">>,
      <<"xor", "Stmp5", "Sv21", "Sv22">>,
      <<"and", "Stmp5", "Stmp5", "Stmp4">>,
      <<"xor", "Sv21", "Sv21", "Stmp5">>, <<"xor", "Sv22", "Sv22", "Stmp5">>,
      <<"xor", "Stmp5", "Sv31", "Sv32">>,
      <<"and", "Stmp5", "Stmp5", "Stmp4">>,
      <<"xor", "Sv31", "Sv31", "Stmp5">>, <<"xor", "Sv32", "Sv32", "Stmp5">>,
      <<"xor", "Stmp5", "Stmp1", "Stmp2">>,
      <<"and", "Stmp5", "Stmp5", "Stmp4">>,
      <<"xor", "Stmp1", "Stmp1", "Stmp5">>,
      <<"xor", "Stmp2", "Stmp2", "Stmp5">>, <<"set", "Stmp5", "-2.f">>,
      <<"and", "Stmp5", "Stmp5", "Stmp4">>, <<"set", "Stmp4", "1.f">>,
      <<"add", "Stmp4", "Stmp4", "Stmp5">>,
      <<"mul", "Sa12", "Sa12", "Stmp4">>, <<"mul", "Sa22", "Sa22", "Stmp4">>,
      <<"mul", "Sa32", "Sa32", "Stmp4">>, <<"mul", "Sv12", "Sv12", "Stmp4">>,
      <<"mul", "Sv22", "Sv22", "Stmp4">>, <<"mul", "Sv32", "Sv32", "Stmp4">>>>

\* Swap columns 1-3 if necessary and negate the 1st column: svd<float> lines
\* 1767-1817; svd<double> has the same statements at lines 703-753.
Swap13Code ==
    <<<<"lt", "Stmp4", "Stmp1", "Stmp3">>, <<"xor", "Stmp5", "Sa11", "Sa13">>,
      <<"and", "Stmp5", "Stmp5", "Stmp4">>,
      <<"xor", "Sa11", "Sa11", "Stmp5">>, <<"xor", "Sa13", "Sa13", "Stmp5">>,
      <<"xor", "Stmp5", "Sa21", "Sa23">>,
      <<"and", "Stmp5", "Stmp5", "Stmp4">>,
      <<"xor", "Sa21", "Sa21", "Stmp5">>, <<"xor", "Sa23", "Sa23", "Stmp5">>,
      <<"xor", "Stmp5", "Sa31", "Sa33">>,
      <<"and", "Stmp5", "Stmp5", "Stmp4">>,
      <<"xor", "Sa31", "Sa31", "Stmp5">>, <<"xor", "Sa33", "Sa33", "Stmp5">>,
      <<"xor", "Stmp5", "Sv11", "Sv13">>,
      <<"and", "Stmp5", "Stmp5", "Stmp4">>,
      <<"xor", "Sv11", "Sv11", "Stmp5">>, <<"xor", "Sv13", "Sv13", "Stmp5">>,
      <<"xor", "Stmp5", "Sv21", "Sv23">>,
      <<"and", "Stmp5", "Stmp5", "Stmp4">>,
      <<"xor", "Sv21", "Sv21", "Stmp5">>, <<"xor", "Sv23", "Sv23", "Stmp5">>,
      <<"xor", "Stmp5", "Sv31", "Sv33">>,
      <<"and", "Stmp5", "Stmp5", "Stmp4">>,
      <<"xor", "Sv31", "Sv31", "Stmp5">>, <<"xor", "Sv33", "Sv33", "Stmp5">>,
      <<"xor", "Stmp5", "Stmp1", "Stmp3">>,
      <<"and", "Stmp5", "Stmp5", "Stmp4">>,
      <<"xor", "Stmp1", "Stmp1", "Stmp5">>,
      <<"xor", "Stmp3", "Stmp3", "Stmp5">>, <<"set", "Stmp5", "-2.f">>,
      <<"and", "Stmp5", "Stmp5", "Stmp4">>, <<"set", "Stmp4", "1.f">>,
      <<"add", "Stmp4", "Stmp4", "Stmp5">>,
      <<"mul", "Sa11", "Sa11", "Stmp4">>, <<"mul", "Sa21", "Sa21", "Stmp4">>,
      <<"mul", "Sa31", "Sa31", "Stmp4">>, <<"mul", "Sv11", "Sv11", "Stmp4">>,
      <<"mul", "Sv21", "Sv21", "Stmp4">>, <<"mul", "Sv31", "Sv31", "Stmp4">>>>

\* Swap columns 2-3 if necessary and negate the 3rd column: svd<float> lines
\* 1821-1871; svd<double> has the same statements at lines 757-807.
Swap23Code ==
    <<<<"lt", "Stmp4", "Stmp2", "Stmp3">>, <<"xor", "Stmp5", "Sa12", "Sa13">>,
      <<"and", "Stmp5", "Stmp5", "Stmp4">>,
      <<"xor", "Sa12", "Sa12", "Stmp5">>, <<"xor", "Sa13", "Sa13", "Stmp5">>,
      <<"xor", "Stmp5", "Sa22", "Sa23">>,
      <<"and", "Stmp5", "Stmp5", "Stmp4">>,
      <<"xor", "Sa22", "Sa22", "Stmp5">>, <<"xor", "Sa23", "Sa23", "Stmp5">>,
      <<"xor", "Stmp5", "Sa32", "Sa33">>,
      <<"and", "Stmp5", "Stmp5", "Stmp4">>,
      <<"xor", "Sa32", "Sa32", "Stmp5">>, <<"xor", "Sa33", "Sa33", "Stmp5">>,
      <<"xor", "Stmp5", "Sv12", "Sv13">>,
      <<"and", "Stmp5", "Stmp5", "Stmp4">>,
      <<"xor", "Sv12", "Sv12", "Stmp5">>, <<"xor", "Sv13", "Sv13", "Stmp5">>,
      <<"xor", "Stmp5", "Sv22", "Sv23">>,
      <<"and", "Stmp5", "Stmp5", "Stmp4">>,
      <<"xor", "Sv22", "Sv22", "Stmp5">>, <<"xor", "Sv23", "Sv23", "Stmp5">>,
      <<"xor", "Stmp5", "Sv32", "Sv33">>,
      <<"and", "Stmp5", "Stmp5", "Stmp4">>,
      <<"xor", "Sv32", "Sv32", "Stmp5">>, <<"xor", "Sv33", "Sv33", "Stmp5">>,
      <<"xor", "Stmp5", "Stmp2", "Stmp3">>,
      <<"and", "Stmp5", "Stmp5", "Stmp4">>,
      <<"xor", "Stmp2", "Stmp2", "Stmp5">>,
      <<"xor", "Stmp3", "Stmp3", "Stmp5">>, <<"set", "Stmp5", "-2.f">>,
      <<"and", "Stmp5", "Stmp5", "Stmp4">>, <<"set", "Stmp4", "1.f">>,
      <<"add", "Stmp4", "Stmp4", "Stmp5">>,
      <<"mul", "Sa13", "Sa13", "Stmp4">>, <<"mul", "Sa23", "Sa23", "Stmp4">>,
      <<"mul", "Sa33", "Sa33", "Stmp4">>, <<"mul", "Sv13", "Sv13", "Stmp4">>,
      <<"mul", "Sv23", "Sv23", "Stmp4">>, <<"mul", "Sv33", "Sv33", "Stmp4">>>>

\* U = identity; first Givens rotation, on a11 and a21: svd<float> lines
\* 1877-1988; svd<double> has the same statements at lines 813-924.
Givens1Code ==
    <<<<"set", "Su11", "1.f">>, <<"set", "Su12", "0.f">>,
      <<"set", "Su13", "0.f">>, <<"set", "Su21", "0.f">>,
      <<"set", "Su22", "1.f">>, <<"set", "Su23", "0.f">>,
      <<"set", "Su31", "0.f">>, <<"set", "Su32", "0.f">>,
      <<"set", "Su33", "1.f">>, <<"mul", "Ssh", "Sa21", "Sa21">>,
      <<"gec", "Ssh", "Ssh", "gsmall_number">>,
      <<"and", "Ssh", "Ssh", "Sa21">>, <<"set", "Stmp5", "0.f">>,
      <<"sub", "Sch", "Stmp5", "Sa11">>, <<"max", "Sch", "Sch", "Sa11">>,
      <<"maxc", "Sch", "Sch", "gsmall_number">>,
      <<"ge", "Stmp5", "Sa11", "Stmp5">>, <<"mul", "Stmp1", "Sch", "Sch">>,
      <<"mul", "Stmp2", "Ssh", "Ssh">>, <<"add", "Stmp2", "Stmp1", "Stmp2">>,
      <<"rsqrt", "Stmp1", "Stmp2">>, <<"mulc", "Stmp4", "Stmp1", "0.5f">>,
      <<"mul", "Stmp3", "Stmp1", "Stmp4">>,
      <<"mul", "Stmp3", "Stmp1", "Stmp3">>,
      <<"mul", "Stmp3", "Stmp2", "Stmp3">>,
      <<"add", "Stmp1", "Stmp1", "Stmp4">>,
      <<"sub", "Stmp1", "Stmp1", "Stmp3">>,
      <<"mul", "Stmp1", "Stmp1", "Stmp2">>, <<"add", "Sch", "Sch", "Stmp1">>,
      <<"andn", "Stmp1", "Stmp5", "Ssh">>,
      <<"andn", "Stmp2", "Stmp5", "Sch">>, <<"and", "Sch", "Stmp5", "Sch">>,
      <<"and", "Ssh", "Stmp5", "Ssh">>, <<"or", "Sch", "Sch", "Stmp1">>,
      <<"or", "Ssh", "Ssh", "Stmp2">>, <<"mul", "Stmp1", "Sch", "Sch">>,
      <<"mul", "Stmp2", "Ssh", "Ssh">>, <<"add", "Stmp2", "Stmp1", "Stmp2">>,
      <<"rsqrt", "Stmp1", "Stmp2">>, <<"mulc", "Stmp4", "Stmp1", "0.5f">>,
      <<"mul", "Stmp3", "Stmp1", "Stmp4">>,
      <<"mul", "Stmp3", "Stmp1", "Stmp3">>,
      <<"mul", "Stmp3", "Stmp2", "Stmp3">>,
      <<"add", "Stmp1", "Stmp1", "Stmp4">>,
      <<"sub", "Stmp1", "Stmp1", "Stmp3">>, <<"mul", "Sch", "Sch", "Stmp1">>,
      <<"mul", "Ssh", "Ssh", "Stmp1">>, <<"mul", "Sc", "Sch", "Sch">>,
      <<"mul", "Ss", "Ssh", "Ssh">>, <<"sub", "Sc", "Sc", "Ss">>,
      <<"mul", "Ss", "Ssh", "Sch">>, <<"add", "Ss", "Ss", "Ss">>,
      <<"mul", "Stmp1", "Ss", "Sa11">>, <<"mul", "Stmp2", "Ss", "Sa21">>,
      <<"mul", "Sa11", "Sc", "Sa11">>, <<"mul", "Sa21", "Sc", "Sa21">>,
      <<"add", "Sa11", "Sa11", "Stmp2">>, <<"sub", "Sa21", "Sa21", "Stmp1">>,
      <<"mul", "Stmp1", "Ss", "Sa12">>, <<"mul", "Stmp2", "Ss", "Sa22">>,
      <<"mul", "Sa12", "Sc", "Sa12">>, <<"mul", "Sa22", "Sc", "Sa22">>,
      <<"add", "Sa12", "Sa12", "Stmp2">>, <<"sub", "Sa22", "Sa22", "Stmp1">>,
      <<"mul", "Stmp1", "Ss", "Sa13">>, <<"mul", "Stmp2", "Ss", "Sa23">>,
      <<"mul", "Sa13", "Sc", "Sa13">>, <<"mul", "Sa23", "Sc", "Sa23">>,
      <<"add", "Sa13", "Sa13", "Stmp2">>, <<"sub", "Sa23", "Sa23", "Stmp1">>,
      <<"mul", "Stmp1", "Ss", "Su11">>, <<"mul", "Stmp2", "Ss", "Su12">>,
      <<"mul", "Su11", "Sc", "Su11">>, <<"mul", "Su12", "Sc", "Su12">>,
      <<"add", "Su11", "Su11", "Stmp2">>, <<"sub", "Su12", "Su12", "Stmp1">>,
      <<"mul", "Stmp1", "Ss", "Su21">>, <<"mul", "Stmp2", "Ss", "Su22">>,
      <<"mul", "Su21", "Sc", "Su21">>, <<"mul", "Su22", "Sc", "Su22">>,
      <<"add", "Su21", "Su21", "Stmp2">>, <<"sub", "Su22", "Su22", "Stmp1">>,
      <<"mul", "Stmp1", "Ss", "Su31">>, <<"mul", "Stmp2", "Ss", "Su32">>,
      <<"mul", "Su31", "Sc", "Su31">>, <<"mul", "Su32", "Sc", "Su32">>,
      <<"add", "Su31", "Su31", "Stmp2">>, <<"sub", "Su32", "Su32", "Stmp1">>>>

\* Second Givens rotation, on a11 and a31: svd<float> lines 1992-2093;
\* svd<double> has the same statements at lines 928-1029.
Givens2Code ==
    <<<<"mul", "Ssh", "Sa31", "Sa31">>,
      <<"gec", "Ssh", "Ssh", "gsmall_number">>,
      <<"and", "Ssh", "Ssh", "Sa31">>, <<"set", "Stmp5", "0.f">>,
      <<"sub", "Sch", "Stmp5", "Sa11">>, <<"max", "Sch", "Sch", "Sa11">>,
      <<"maxc", "Sch", "Sch", "gsmall_number">>,
      <<"ge", "Stmp5", "Sa11", "Stmp5">>, <<"mul", "Stmp1", "Sch", "Sch">>,
      <<"mul", "Stmp2", "Ssh", "Ssh">>, <<"add", "Stmp2", "Stmp1", "Stmp2">>,
      <<"rsqrt", "Stmp1", "Stmp2">>, <<"mulc", "Stmp4", "Stmp1", "0.5">>,
      <<"mul", "Stmp3", "Stmp1", "Stmp4">>,
      <<"mul", "Stmp3", "Stmp1", "Stmp3">>,
      <<"mul", "Stmp3", "Stmp2", "Stmp3">>,
      <<"add", "Stmp1", "Stmp1", "Stmp4">>,
      <<"sub", "Stmp1", "Stmp1", "Stmp3">>,
      <<"mul", "Stmp1", "Stmp1", "Stmp2">>, <<"add", "Sch", "Sch", "Stmp1">>,
      <<"andn", "Stmp1", "Stmp5", "Ssh">>,
      <<"andn", "Stmp2", "Stmp5", "Sch">>, <<"and", "Sch", "Stmp5", "Sch">>,
      <<"and", "Ssh", "Stmp5", "Ssh">>, <<"or", "Sch", "Sch", "Stmp1">>,
      <<"or", "Ssh", "Ssh", "Stmp2">>, <<"mul", "Stmp1", "Sch", "Sch">>,
      <<"mul", "Stmp2", "Ssh", "Ssh">>, <<"add", "Stmp2", "Stmp1", "Stmp2">>,
      <<"rsqrt", "Stmp1", "Stmp2">>, <<"mulc", "Stmp4", "Stmp1", "0.5f">>,
      <<"mul", "Stmp3", "Stmp1", "Stmp4">>,
      <<"mul", "Stmp3", "Stmp1", "Stmp3">>,
      <<"mul", "Stmp3", "Stmp2", "Stmp3">>,
      <<"add", "Stmp1", "Stmp1", "Stmp4">>,
      <<"sub", "Stmp1", "Stmp1", "Stmp3">>, <<"mul", "Sch", "Sch", "Stmp1">>,
      <<"mul", "Ssh", "Ssh", "Stmp1">>, <<"mul", "Sc", "Sch", "Sch">>,
      <<"mul", "Ss", "Ssh", "Ssh">>, <<"sub", "Sc", "Sc", "Ss">>,
      <<"mul", "Ss", "Ssh", "Sch">>, <<"add", "Ss", "Ss", "Ss">>,
      <<"mul", "Stmp1", "Ss", "Sa11">>, <<"mul", "Stmp2", "Ss", "Sa31">>,
      <<"mul", "Sa11", "Sc", "Sa11">>, <<"mul", "Sa31", "Sc", "Sa31">>,
      <<"add", "Sa11", "Sa11", "Stmp2">>, <<"sub", "Sa31", "Sa31", "Stmp1">>,
      <<"mul", "Stmp1", "Ss", "Sa12">>, <<"mul", "Stmp2", "Ss", "Sa32">>,
      <<"mul", "Sa12", "Sc", "Sa12">>, <<"mul", "Sa32", "Sc", "Sa32">>,
      <<"add", "Sa12", "Sa12", "Stmp2">>, <<"sub", "Sa32", "Sa32", "Stmp1">>,
      <<"mul", "Stmp1", "Ss", "Sa13">>, <<"mul", "Stmp2", "Ss", "Sa33">>,
      <<"mul", "Sa13", "Sc", "Sa13">>, <<"mul", "Sa33", "Sc", "Sa33">>,
      <<"add", "Sa13", "Sa13", "Stmp2">>, <<"sub", "Sa33", "Sa33", "Stmp1">>,
      <<"mul", "Stmp1", "Ss", "Su11">>, <<"mul", "Stmp2", "Ss", "Su13">>,
      <<"mul", "Su11", "Sc", "Su11">>, <<"mul", "Su13", "Sc", "Su13">>,
      <<"add", "Su11", "Su11", "Stmp2">>, <<"sub", "Su13", "Su13", "Stmp1">>,
      <<"mul", "Stmp1", "Ss", "Su21">>, <<"mul", "Stmp2", "Ss", "Su23">>,
      <<"mul", "Su21", "Sc", "Su21">>, <<"mul", "Su23", "Sc", "Su23">>,
      <<"add", "Su21", "Su21", "Stmp2">>, <<"sub", "Su23", "Su23", "Stmp1">>,
      <<"mul", "Stmp1", "Ss", "Su31">>, <<"mul", "Stmp2", "Ss", "Su33">>,
      <<"mul", "Su31", "Sc", "Su31">>, <<"mul", "Su33", "Sc", "Su33">>,
      <<"add", "Su31", "Su31", "Stmp2">>, <<"sub", "Su33", "Su33", "Stmp1">>>>

\* Third Givens rotation, on a22 and a32: svd<float> lines 2097-2198;
\* svd<double> has the same statements at lines 1033-1134.
Givens3Code ==
    <<<<"mul", "Ssh", "Sa32", "Sa32">>,
      <<"gec", "Ssh", "Ssh", "gsmall_number">>,
      <<"and", "Ssh", "Ssh", "Sa32">>, <<"set", "Stmp5", "0.f">>,
      <<"sub", "Sch", "Stmp5", "Sa22">>, <<"max", "Sch", "Sch", "Sa22">>,
      <<"maxc", "Sch", "Sch", "gsmall_number">>,
      <<"ge", "Stmp5", "Sa22", "Stmp5">>, <<"mul", "Stmp1", "Sch", "Sch">>,
      <<"mul", "Stmp2", "Ssh", "Ssh">>, <<"add", "Stmp2", "Stmp1", "Stmp2">>,
      <<"rsqrt", "Stmp1", "Stmp2">>, <<"mulc", "Stmp4", "Stmp1", "0.5f">>,
      <<"mul", "Stmp3", "Stmp1", "Stmp4">>,
      <<"mul", "Stmp3", "Stmp1", "Stmp3">>,
      <<"mul", "Stmp3", "Stmp2", "Stmp3">>,
      <<"add", "Stmp1", "Stmp1", "Stmp4">>,
      <<"sub", "Stmp1", "Stmp1", "Stmp3">>,
      <<"mul", "Stmp1", "Stmp1", "Stmp2">>, <<"add", "Sch", "Sch", "Stmp1">>,
      <<"andn", "Stmp1", "Stmp5", "Ssh">>,
      <<"andn", "Stmp2", "Stmp5", "Sch">>, <<"and", "Sch", "Stmp5", "Sch">>,
      <<"and", "Ssh", "Stmp5", "Ssh">>, <<"or", "Sch", "Sch", "Stmp1">>,
      <<"or", "Ssh", "Ssh", "Stmp2">>, <<"mul", "Stmp1", "Sch", "Sch">>,
      <<"mul", "Stmp2", "Ssh", "Ssh">>, <<"add", "Stmp2", "Stmp1", "Stmp2">>,
      <<"rsqrt", "Stmp1", "Stmp2">>, <<"mulc", "Stmp4", "Stmp1", "0.5f">>,
      <<"mul", "Stmp3", "Stmp1", "Stmp4">>,
      <<"mul", "Stmp3", "Stmp1", "Stmp3">>,
      <<"mul", "Stmp3", "Stmp2", "Stmp3">>,
      <<"add", "Stmp1", "Stmp1", "Stmp4">>,
      <<"sub", "Stmp1", "Stmp1", "Stmp3">>, <<"mul", "Sch", "Sch", "Stmp1">>,
      <<"mul", "Ssh", "Ssh", "Stmp1">>, <<"mul", "Sc", "Sch", "Sch">>,
      <<"mul", "Ss", "Ssh", "Ssh">>, <<"sub", "Sc", "Sc", "Ss">>,
      <<"mul", "Ss", "Ssh", "Sch">>, <<"add", "Ss", "Ss", "Ss">>,
      <<"mul", "Stmp1", "Ss", "Sa21">>, <<"mul", "Stmp2", "Ss", "Sa31">>,
      <<"mul", "Sa21", "Sc", "Sa21">>, <<"mul", "Sa31", "Sc", "Sa31">>,
      <<"add", "Sa21", "Sa21", "Stmp2">>, <<"sub", "Sa31", "Sa31", "Stmp1">>,
      <<"mul", "Stmp1", "Ss", "Sa22">>, <<"mul", "Stmp2", "Ss", "Sa32">>,
      <<"mul", "Sa22", "Sc", "Sa22">>, <<"mul", "Sa32", "Sc", "Sa32">>,
      <<"add", "Sa22", "Sa22", "Stmp2">>, <<"sub", "Sa32", "Sa32", "Stmp1">>,
      <<"mul", "Stmp1", "Ss", "Sa23">>, <<"mul", "Stmp2", "Ss", "Sa33">>,
      <<"mul", "Sa23", "Sc", "Sa23">>, <<"mul", "Sa33", "Sc", "Sa33">>,
      <<"add", "Sa23", "Sa23", "Stmp2">>, <<"sub", "Sa33", "Sa33", "Stmp1">>,
      <<"mul", "Stmp1", "Ss", "Su12">>, <<"mul", "Stmp2", "Ss", "Su13">>,
      <<"mul", "Su12", "Sc", "Su12">>, <<"mul", "Su13", "Sc", "Su13">>,
      <<"add", "Su12", "Su12", "Stmp2">>, <<"sub", "Su13", "Su13", "Stmp1">>,
      <<"mul", "Stmp1", "Ss", "Su22">>, <<"mul", "Stmp2", "Ss", "Su23">>,
      <<"mul", "Su22", "Sc", "Su22">>, <<"mul", "Su23", "Sc", "Su23">>,
      <<"add", "Su22", "Su22", "Stmp2">>, <<"sub", "Su23", "Su23", "Stmp1">>,
      <<"mul", "Stmp1", "Ss", "Su32">>, <<"mul", "Stmp2", "Ss", "Su33">>,
      <<"mul", "Su32", "Sc", "Su32">>, <<"mul", "Su33", "Sc", "Su33">>,
      <<"add", "Su32", "Su32", "Stmp2">>, <<"sub", "Su33", "Su33", "Stmp1">>>>

\* The nine locals of A (A*V, later the triangular factor), of V and of U.
Sa ==
    <<<<"Sa11", "Sa12", "Sa13">>, <<"Sa21", "Sa22", "Sa23">>,
      <<"Sa31", "Sa32", "Sa33">>>>

Sv ==
    <<<<"Sv11", "Sv12", "Sv13">>, <<"Sv21", "Sv22", "Sv23">>,
      <<"Sv31", "Sv32", "Sv33">>>>

Su ==
    <<<<"Su11", "Su12", "Su13">>, <<"Su21", "Su22", "Su23">>,
      <<"Su31", "Su32", "Su33">>>>

\* un<scalar_t> Sa11, ..., Sqvvz: every local of svd
RegNames ==
    {Sa[i][j] : i, j \in 1..3} \cup {Sv[i][j] : i, j \in 1..3} \cup
    {Su[i][j] : i, j \in 1..3} \cup
    {"Sc", "Ss", "Sch", "Ssh", "Stmp1", "Stmp2", "Stmp3", "Stmp4", "Stmp5",
     "Ss11", "Ss21", "Ss31", "Ss22", "Ss32", "Ss33",
     "Sqvs", "Sqvvx", "Sqvvy", "Sqvvz"}

\* The locals are declared without initialiser: on entry each holds
\* whatever its storage held, here the number g in every word.
Uninitialised(s, g) ==
    [name \in RegNames |->
        IF s = "float" THEN [hi |-> Frac(0), lo |-> FloatWord(Frac(g))]
        ELSE [hi |-> Frac(g), lo |-> IntWord(g)]]

\* Sa11.f = a11; ...: nine locals take the entries of the row-major m.
LoadMatrix(s, r, names, m) ==
    [name \in RegNames |->
        IF \E o \in 0..8 : names[(o \div 3) + 1][(o % 3) + 1] = name
        THEN StoreF(s, Frac(m[CHOOSE o \in 0..8 :
                                 names[(o \div 3) + 1][(o % 3) + 1] = name]))
        ELSE r[name]]

\* A whole number held as a fraction.
IntOf(p) == CASE p.den = 1 -> p.num

\* The whole numbers nine locals hold, as a matrix.
RegMatrix(s, names) ==
    [i \in Idx |-> [j \in Idx |-> IntOf(F(s, regs[s][names[i + 1][j + 1]]))]]

\* A matrix as the row-major array o |-> m[o \div 3][o % 3] and back.
Flat(M) == [o \in 0..8 |-> M[o \div 3][o % 3]]
Square(m) == [i \in Idx |-> [j \in Idx |-> m[3 * i + j]]]

Diag(a, b, c) == RowMajor(<<<<a, 0, 0>>, <<0, b, 0>>, <<0, 0, c>>>>)

\* Inputs of a whole call: diagonal matrices whose entries are powers of
\* two of either sign, no entry larger in magnitude than the one before.
SvdInputs ==
    {Diag(d[1], d[2], d[3]) :
        d \in {u \in {-2, -1, 1, 2} \X {-2, -1, 1, 2} \X {-2, -1, 1, 2} :
                  Abs(u[1]) >= Abs(u[2]) /\ Abs(u[2]) >= Abs(u[3])}}

SvdRightHandSides == [0..2 -> {-1, 0, 2}]

\* Inputs of the stages: A, and for the column-permutation stage a
\* rotation V, so that the stage starts from A*V and V.
StageInputs ==
    {Diag(1, 1, 1), Diag(1, 2, 3), Diag(3, 1, 2), Diag(2, 2, 1),
     RowMajor(<<<<1, 1, 0>>, <<0, 1, 0>>, <<0, 0, 2>>>>)}

StageRotations == {V \in SignedPermutations : Det(V) = 1}

\* The loop body, for (int i = 0; i < 4; i++) { ... }
JacobiCode ==
    SelectCode \o Conjugate21Code \o Conjugate32Code \o Conjugate31Code

\* svd of element type s moves from one position to the next with the
\* locals r.
Step(s, from, to, r) ==
    /\ stage[s] = from
    /\ regs' = [regs EXCEPT ![s] = r]
    /\ stage' = [stage EXCEPT ![s] = to]
    /\ UNCHANGED svd_a

\* svd is entered from solve_svd3x3 with A and b; the caller in this
\* repository passes float arrays.
InitSvd ==
    /\ svd_a \in SvdInputs
    /\ \E g \in Garbage : regs = [s \in Scalars |-> Uninitialised(s, g)]
    /\ stage = [s \in Scalars |-> IF s = "float" THEN "normal" ELSE "off"]
    /\ sweep = 0
    /\ svd_U = <<>>
    /\ svd_S = <<>>
    /\ sigma = <<>>
    /\ svd_V = <<>>
    /\ rhs \in SvdRightHandSides
    /\ Ainv = <<>>
    /\ sol = <<>>
    /\ spc = "svd"
    /\ ReduceIdle
    /\ ProjectIdle
    /\ RtIdle
    /\ EstimateIdle
    /\ DetIdle
    /\ IndexIdle
    /\ GradientIdle

\* Both specialisations are entered on the same A, either at the top of
\* svd or at the column-permutation stage with the same A*V and V.
InitStage ==
    /\ svd_a \in StageInputs
    /\ \E g \in Garbage :
          \/ /\ regs = [s \in Scalars |-> Uninitialised(s, g)]
             /\ stage = [s \in Scalars |-> "normal"]
          \/ \E V \in StageRotations :
                /\ regs = [s \in Scalars |->
                              LoadMatrix(s,
                                  LoadMatrix(s, Uninitialised(s, g), Sa,
                                             Flat(Matmul(Square(svd_a), V))),
                                  Sv, Flat(V))]
                /\ stage = [s \in Scalars |-> "norms"]
    /\ sweep = 0
    /\ SolveIdle
    /\ ReduceIdle
    /\ ProjectIdle
    /\ RtIdle
    /\ EstimateIdle
    /\ DetIdle
    /\ IndexIdle
    /\ GradientIdle

\* Sa11.f = a11; ...; Compute normal equations matrix
NormalEquations(s) ==
    /\ Step(s, "normal", "jacobi",
            Run(s, NormalEquationsCode, LoadMatrix(s, regs[s], Sa, svd_a)))
    /\ UNCHANGED sweep
    /\ UNCHANGED nonSvd

\* The choice of (ch, sh) that opens the first conjugation
JacobiSelect(s) ==
    /\ Step(s, "jacobi", "selected", Run(s, SelectCode, regs[s]))
    /\ UNCHANGED sweep
    /\ UNCHANGED nonSvd

\* One pass of for (int i = 0; i < 4; i++): three conjugations
JacobiIteration(s) ==
    /\ sweep < 4
    /\ Step(s, "jacobi", "jacobi", Run(s, JacobiCode, regs[s]))
    /\ sweep' = sweep + 1
    /\ UNCHANGED nonSvd

\* The loop is left; Normalize quaternion for matrix V
NormalizeQuaternion(s) ==
    /\ sweep = 4
    /\ Step(s, "jacobi", "tov", Run(s, NormalizeCode, regs[s]))
    /\ UNCHANGED sweep
    /\ UNCHANGED nonSvd

\* Transform quaternion to matrix V
QuaternionToV(s) ==
    /\ Step(s, "tov", "multiply", Run(s, QuaternionToVCode, regs[s]))
    /\ UNCHANGED sweep
    /\ UNCHANGED nonSvd

\* Multiply (from the right) with V
MultiplyAV(s) ==
    /\ Step(s, "multiply", "norms", Run(s, MultiplyAVCode, regs[s]))
    /\ UNCHANGED sweep
    /\ UNCHANGED nonSvd

\* Permute columns such that the singular values are sorted: the norms
ColumnNorms(s) ==
    /\ Step(s, "norms", "swap12", Run(s, ColumnNormsCode, regs[s]))
    /\ UNCHANGED sweep
    /\ UNCHANGED nonSvd

\* Swap columns 1-2 if necessary
Swap12(s) ==
    /\ Step(s, "swap12", "swap13", Run(s, Swap12Code, regs[s]))
    /\ UNCHANGED sweep
    /\ UNCHANGED nonSvd

\* Swap columns 1-3 if necessary
Swap13(s) ==
    /\ Step(s, "swap13", "swap23", Run(s, Swap13Code, regs[s]))
    /\ UNCHANGED sweep
    /\ UNCHANGED nonSvd

\* Swap columns 2-3 if necessary
Swap23(s) ==
    /\ Step(s, "swap23", "givens1", Run(s, Swap23Code, regs[s]))
    /\ UNCHANGED sweep
    /\ UNCHANGED nonSvd

\* Construct QR factorization of A*V (=U*D) using Givens rotations
Givens1(s) ==
    /\ Step(s, "givens1", "givens2", Run(s, Givens1Code, regs[s]))
    /\ UNCHANGED sweep
    /\ UNCHANGED nonSvd

\* Second Givens rotation
Givens2(s) ==
    /\ Step(s, "givens2", "givens3", Run(s, Givens2Code, regs[s]))
    /\ UNCHANGED sweep
    /\ UNCHANGED nonSvd

\* Third Givens Rotation
Givens3(s) ==
    /\ Step(s, "givens3", "return", Run(s, Givens3Code, regs[s]))
    /\ UNCHANGED sweep
    /\ UNCHANGED nonSvd

\* v11 = Sv11.f; ... u11 = Su11.f; ... s11 = Sa11.f; s22 = Sa22.f;
\* s33 = Sa33.f, into the U, S and V of solve_svd3x3
SvdReturn(s) ==
    /\ spc = "svd"
    /\ Step(s, "return", "returned", regs[s])
    /\ svd_U' = Flat(RegMatrix(s, Su))
    /\ svd_V' = Flat(RegMatrix(s, Sv))
    /\ svd_S' = [k \in 0..2 |-> F(s, regs[s][Sa[k + 1][k + 1]])]
    /\ sigma' = svd_S'
    /\ spc' = "sigma"
    /\ UNCHANGED <<rhs, Ainv, sol, sweep>>
    /\ UNCHANGED <<rvars, pvars, tvars, evars, dvars, ivars, gvars>>

NextSvd ==
    \/ \E s \in Scalars : NormalEquations(s)
    \/ \E s \in Scalars : JacobiIteration(s)
    \/ \E s \in Scalars : NormalizeQuaternion(s)
    \/ \E s \in Scalars : QuaternionToV(s)
    \/ \E s \in Scalars : MultiplyAV(s)
    \/ \E s \in Scalars : ColumnNorms(s)
    \/ \E s \in Scalars : Swap12(s)
    \/ \E s \in Scalars : Swap13(s)
    \/ \E s \in Scalars : Swap23(s)
    \/ \E s \in Scalars : Givens1(s)
    \/ \E s \in Scalars : Givens2(s)
    \/ \E s \in Scalars : Givens3(s)
    \/ \E s \in Scalars : SvdReturn(s)
    \/ SolveSigma
    \/ SolveCompose
    \/ SolveApply

SpecSvd == InitSvd /\ [][NextSvd]_vars

NextStage ==
    \/ \E s \in Scalars : NormalEquations(s)
    \/ \E s \in Scalars : JacobiSelect(s)
    \/ \E s \in Scalars : ColumnNorms(s)
    \/ \E s \in Scalars : Swap12(s)
    \/ \E s \in Scalars : Swap13(s)
    \/ \E s \in Scalars : Swap23(s)

SpecStage == InitStage /\ [][NextStage]_vars

\* --------------------------------------------------------- svd: properties

\* C21: for A the identity solve_svd3x3 returns x = b for every b: the
\* normal-equations matrix is diagonal and the quaternion is (1, 0, 0, 0)
\* before and after every Jacobi iteration, A*V and V are the identity
\* before and after each conditional swap, svd returns U = V = identity
\* with the singular values 1, 1, 1, and the solution is b.
C21_IdentitySolvesExactly ==
    svd_a = Diag(1, 1, 1) =>
        LET v(name) == F("float", regs["float"][name])
        IN  /\ stage["float"] = "jacobi" =>
                  /\ \A name \in {"Ss21", "Ss31", "Ss32"} : v(name) = Frac(0)
                  /\ \A name \in {"Sqvvx", "Sqvvy", "Sqvvz"} :
                        v(name) = Frac(0)
                  /\ v("Sqvs") = Frac(1)
            /\ stage["float"] \in
                   {"norms", "swap12", "swap13", "swap23", "givens1"} =>
                  /\ RegMatrix("float", Sa) = Eye3
                  /\ RegMatrix("float", Sv) = Eye3
            /\ stage["float"] = "returned" =>
                  /\ svd_U = Flat(Eye3)
                  /\ svd_V = Flat(Eye3)
                  /\ sigma = [k \in 0..2 |-> Frac(1)]
            /\ spc = "done" => sol = [o \in 0..2 |-> Frac(rhs[o])]

\* The identity has gone through four iterations, the three swaps and the
\* three rotations, and the system with b = (2, -1, 0) is solved.
C21_Witness ==
    /\ svd_a = Diag(1, 1, 1)
    /\ sweep = 4
    /\ stage["float"] = "returned"
    /\ spc = "done"
    /\ rhs = [o \in 0..2 |-> <<2, -1, 0>>[o + 1]]
    /\ sol = [o \in 0..2 |-> Frac(rhs[o])]

\* C22: the two specialisations take the same decisions and hold the same
\* values: once both have made the choice of (ch, sh) on the same A, sh
\* and ch hold the same number in both, and once both have gone through
\* the three conditional swaps on the same A*V and V, the columns of A*V
\* and V and the three norms hold the same numbers in both.
C22_SameInBothPrecisions ==
    LET same(name) ==
            /\ regs["double"][name].lo = IntWord(0)
            /\ regs["float"][name].lo = FloatWord(regs["double"][name].hi)
    IN  /\ stage = [s \in Scalars |-> "selected"] =>
              same("Ssh") /\ same("Sch")
        /\ stage = [s \in Scalars |-> "givens1"] =>
              /\ \A i, j \in 1..3 : same(Sa[i][j]) /\ same(Sv[i][j])
              /\ \A name \in {"Stmp1", "Stmp2", "Stmp3"} : same(name)

\* C27: after the three conditional swaps the squared column norms of A*V
\* are in non-increasing order and the three norm locals hold them, V has
\* determinant 1, and A*V is the original A times V, in either
\* specialisation.
C27_SwapsSortColumns ==
    \A s \in Scalars :
        stage[s] = "givens1" =>
            LET B == RegMatrix(s, Sa)
                V == RegMatrix(s, Sv)
                norm(j) == B[0][j] * B[0][j] + B[1][j] * B[1][j]
                               + B[2][j] * B[2][j]
            IN  /\ norm(0) >= norm(1)
                /\ norm(1) >= norm(2)
                /\ \A j \in Idx :
                      F(s, regs[s][<<"Stmp1", "Stmp2", "Stmp3">>[j + 1]])
                          = Frac(norm(j))
                /\ Det(V) = 1
                /\ B = Matmul(Square(svd_a), V)

====
